---- MODULE Spec2Model ----
(***************************************************************************)
(* Verification model of the configuration-driven API adapter              *)
(* (backend/src/adapter): the mapping-document validator, the V1 call      *)
(* orchestrator and the V2 response builder.                               *)
(*                                                                         *)
(* Python strings that the code takes apart (endpoint templates, dot       *)
(* paths, call names) are sequences of one-character strings.  JSON values *)
(* are tagged records: None, a scalar, or a dict (a function from keys to  *)
(* JSON values).                                                           *)
(***************************************************************************)
EXTENDS Integers, Sequences, FiniteSets, TLC

VARIABLES
    config,        \* orchestrate / build_response: the MappingConfig of the request
    v2_params,     \* orchestrate: the unified parameter bag
    pc,            \* position of the running operation
    idx,           \* orchestrate: 1-based position of the for loop over config.v1_calls
    v1_responses,  \* orchestrate: the dict {v1_call_name: response_data}
    in_flight,     \* positions of the calls whose HTTP request awaits its response
    dispatched,    \* history: positions of the calls handed to client.request, in order
    last_outcome,  \* history: what the upstream answered to the latest request
    last_result,   \* history: what execute_v1_call produced for the latest call
    result,        \* what the operation returned or raised
    raw_config,    \* load_config: the parsed YAML of the file being loaded
    configs,       \* ConfigLoader._configs: the registry {endpoint_id: MappingConfig}
    v2_response,   \* build_response / _set_nested_value: the dict being filled
    written,       \* history: positions of the field mappings whose value was written
    failed,        \* history: positions of the field mappings whose evaluation raised
    nested_in,     \* _set_nested_value on its own: the dict, path and value it was given
    read_back,     \* get_nested_value on its own: what reading the path back gave
    memory,        \* build_response: the dict objects of the response set and the stubs
    runs,          \* history: what each finished run of build_response gave
    request,       \* endpoint_handler: the V2 request that arrived at a route
    answer,        \* endpoint_handler: the HTTP answer to the request
    xform_in,      \* the transformer on its own: the arguments it was given
    context,       \* apply_mapping: the context it handed to transform
    store,         \* the config directory: {endpoint_id: parsed YAML of <endpoint_id>.yaml}
    dicts,         \* the dict objects of main.py and config_routes.py, by the name of their owner
    endpoint_configs, \* main.py, config_routes.py: the dict object the global is bound to
    routes,        \* app.router.routes tagged v2-api: the MappingConfig each handler closed over
    watcher,       \* ConfigFileHandler: last_reload, the clock and the reload tasks on the loop
    client,        \* V1Orchestrator.client, the httpx.AsyncClient of the process
    requests,      \* the V2 requests being handled, each with what its coroutine holds
    observed       \* history: what the loads, the watcher and the requests did so far

orchVars == <<config, v2_params, pc, idx, v1_responses, in_flight, dispatched,
              last_outcome, last_result, result>>

histVars == <<idx, in_flight, dispatched, last_outcome, last_result>>

loadVars == <<raw_config, configs>>

buildVars == <<v2_response, written, failed, nested_in, read_back, memory, runs>>

reqVars == <<request, answer>>

xformVars == <<xform_in, context>>

serverVars == <<store, dicts, endpoint_configs, routes, watcher, client, requests, observed>>

vars == <<orchVars, loadVars, buildVars, reqVars, xformVars, serverVars>>

-----------------------------------------------------------------------------
(* Bounds of the model *)

MaxCalls == 3

MaxSegments == 2

MaxLoadCalls == 2

MaxMappings == 2

MaxPathLen == 5

MaxParamMaps == 2

MaxCoerceLen == 3

MaxRuns == 2

MaxRerunMappings == 3

MaxNameLen == 2

MaxV1PathLen == 4

-----------------------------------------------------------------------------
(* Python str and dict helpers *)

NoValue == [kind |-> "none"]

StrVal(chars) == [kind |-> "str", s |-> chars]

IntVal(n) == [kind |-> "int", n |-> n]

Dict(items) == [kind |-> "dict", items |-> items]

EmptyDict == Dict(<<>>)

\* dict.get(key): the value, or None when the key is missing
DictGet(d, key) == IF key \in DOMAIN d THEN d[key] ELSE NoValue

\* d[key] = value on a copy of d
DictSet(d, key, value) ==
    [k \in (DOMAIN d) \cup {key} |-> IF k = key THEN value ELSE d[k]]

Digit(n) == CASE n = 0 -> "0" [] n = 1 -> "1" [] n = 2 -> "2" [] n = 3 -> "3"
              [] n = 4 -> "4" [] n = 5 -> "5" [] n = 6 -> "6" [] n = 7 -> "7"
              [] n = 8 -> "8" [] n = 9 -> "9"

RECURSIVE Decimal(_)
Decimal(n) == IF n < 10 THEN <<Digit(n)>> ELSE Decimal(n \div 10) \o <<Digit(n % 10)>>

\* str(value) for the values a parameter bag holds
PyStr(v) == IF v.kind = "str" THEN v.s ELSE Decimal(v.n)

StartsWith(s, prefix) ==
    /\ Len(prefix) <= Len(s)
    /\ SubSeq(s, 1, Len(prefix)) = prefix

Drop(s, n) == SubSeq(s, n + 1, Len(s))

\* str.replace(old, new): every non-overlapping occurrence, scanning left to right
RECURSIVE Replace(_, _, _)
Replace(s, old, new) ==
    IF s = <<>> THEN <<>>
    ELSE IF old # <<>> /\ StartsWith(s, old)
         THEN new \o Replace(Drop(s, Len(old)), old, new)
         ELSE <<Head(s)>> \o Replace(Tail(s), old, new)

-----------------------------------------------------------------------------
(* models.py: the mapping document *)

ParamMapping(v2_param, v1_param, location) ==
    [v2_param |-> v2_param, v1_param |-> v1_param, location |-> location]

\* params is a dict from "path" | "query" | "body" to a list of ParamMapping;
\* params = None and params = {} are both the empty function
V1ApiCall(name, endpoint, method, params) ==
    [name |-> name, endpoint |-> endpoint, method |-> method, params |-> params]

FieldMapping(v2_path, source, v1_path, transform, stub_value) ==
    [v2_path |-> v2_path, source |-> source, v1_path |-> v1_path,
     transform |-> transform, stub_value |-> stub_value]

MappingConfig(v1_calls, field_mappings) ==
    [v1_calls |-> v1_calls, field_mappings |-> field_mappings]

STUB == <<"s", "t", "u", "b">>

Range(q) == {q[j] : j \in DOMAIN q}

\* `sub in s`
Contains(s, sub) ==
    \E i \in 1..(Len(s) - Len(sub) + 1) : SubSeq(s, i, i + Len(sub) - 1) = sub

\* the characters of the model's alphabet for which str.isalnum() is true
AlnumChars == {"a", "b", "c", "g", "p", "s", "t", "u", "x"}

\* str.isalnum(): every character is alphanumeric and there is at least one
IsAlnum(s) == s # <<>> /\ \A i \in DOMAIN s : s[i] \in AlnumChars

\* V1ApiCall.name_must_be_valid_identifier: TRUE when the name passes
name_must_be_valid_identifier(v) == IsAlnum(Replace(v, <<"_">>, <<>>))

\* FieldMapping.transform_uses_jinja2: TRUE when the transform passes;
\* the transform None is the empty string
transform_uses_jinja2(v) ==
    ~(v # <<>> /\ (~Contains(v, <<"{", "{">>) \/ ~Contains(v, <<"}", "}">>)))

\* FieldMapping.stub_type: Optional[Literal["null", "configurable_default",
\* "empty_string", "empty_array"]].  A mapping without the key has stub_type
\* None.
valid_types == {"null", "configurable_default", "empty_string", "empty_array"}

\* the annotation of stub_type, which pydantic validates before it calls the
\* field validator (field_validator('stub_type') is an "after" validator):
\* TRUE when the value passes
StubTypeIsLiteral(field_mapping) ==
    "stub_type" \in DOMAIN field_mapping => field_mapping.stub_type \in valid_types

\* FieldMapping.validate_stub_type, called with a value that passed the
\* annotation
validate_stub_type(v) ==
    IF v \notin valid_types THEN "configurable_default" ELSE v

\* the field mapping as the model holds it once validated
ValidatedFieldMapping(field_mapping) ==
    IF "stub_type" \in DOMAIN field_mapping
    THEN [field_mapping EXCEPT !.stub_type = validate_stub_type(@)]
    ELSE field_mapping

\* Mutant of validate_source_references: the check is skipped
validate_source_references_Skipped(field_mappings, v1_calls) == TRUE

\* MappingConfig.validate_source_references: TRUE when every source is
\* 'stub' or the name of a call
validate_source_references(field_mappings, v1_calls) ==
    LET v1_call_names == {v1_calls[i].name : i \in DOMAIN v1_calls}
    IN  \A i \in DOMAIN field_mappings :
            ~(field_mappings[i].source # STUB
              /\ field_mappings[i].source \notin v1_call_names)

\* MappingConfig(**raw_config): the validation errors pydantic collects.  The
\* validator of field_mappings runs only when the list itself validated, and
\* checks the sources only when v1_calls validated ('v1_calls' in info.data).
ValidationErrors(raw) ==
    LET calls_errors ==
            (IF Len(raw.v1_calls) < 1 THEN {"v1_calls.min_length"} ELSE {})
            \cup (IF \E i \in DOMAIN raw.v1_calls :
                        ~name_must_be_valid_identifier(raw.v1_calls[i].name)
                  THEN {"v1_calls.name"} ELSE {})
        mappings_errors ==
            (IF Len(raw.field_mappings) < 1 THEN {"field_mappings.min_length"} ELSE {})
            \cup (IF \E i \in DOMAIN raw.field_mappings :
                        ~transform_uses_jinja2(raw.field_mappings[i].transform)
                  THEN {"field_mappings.transform"} ELSE {})
            \cup (IF \E i \in DOMAIN raw.field_mappings :
                        ~StubTypeIsLiteral(raw.field_mappings[i])
                  THEN {"field_mappings.stub_type"} ELSE {})
        source_errors ==
            IF /\ mappings_errors = {}
               /\ calls_errors = {}
               /\ ~validate_source_references(raw.field_mappings, raw.v1_calls)
            THEN {"field_mappings.source"} ELSE {}
    IN  calls_errors \cup mappings_errors \cup source_errors

\* ConfigLoader.load_config once the YAML is parsed: the MappingConfig, or
\* ValueError("Invalid config in ...")
load_config(raw) ==
    LET errors == ValidationErrors(raw)
    IN  IF errors = {}
        THEN [kind |-> "return",
              data |-> [raw EXCEPT !.field_mappings =
                           [i \in DOMAIN @ |-> ValidatedFieldMapping(@[i])]]]
        ELSE [kind |-> "ValueError", errors |-> errors]

-----------------------------------------------------------------------------
(* orchestrator.py *)

V1OrchestratorError(status_code, details) ==
    [kind |-> "V1OrchestratorError", status_code |-> status_code, details |-> details]

\* an exception that is no V1OrchestratorError
OtherException(type) == [kind |-> "exception", type |-> type]

Returned(data) == [kind |-> "return", data |-> data]

NoResult == [kind |-> "none"]

\* V1Orchestrator.__init__: v1_base_url.rstrip('/')
v1_base_url == <<"h">>

\* the for loop of _build_v1_url over v1_call.params['path']
RECURSIVE SubstitutePathParams(_, _, _)
SubstitutePathParams(url, path_maps, params) ==
    IF path_maps = <<>> THEN Returned(url)
    ELSE LET param_map == Head(path_maps)
             v2_value  == DictGet(params, param_map.v2_param)
         IN  IF v2_value = NoValue
             THEN V1OrchestratorError(400, <<>>)
             ELSE LET braces == Replace(url, <<"{">> \o param_map.v1_param \o <<"}">>,
                                        PyStr(v2_value))
                      colon  == Replace(braces, <<":">> \o param_map.v1_param,
                                        PyStr(v2_value))
                  IN  SubstitutePathParams(colon, Tail(path_maps), params)

build_v1_url(v1_call, params) ==
    LET r == IF "path" \in DOMAIN v1_call.params
             THEN SubstitutePathParams(v1_call.endpoint, v1_call.params["path"], params)
             ELSE Returned(v1_call.endpoint)
    IN  IF r.kind = "return" THEN Returned(v1_base_url \o r.data) ELSE r

\* An upstream outcome is an HTTP response (status code, body) or a transport
\* fault.  A body is its text and, when the text is JSON, the decoded value.
HttpResponse(status_code, body) ==
    [kind |-> "response", status_code |-> status_code, body |-> body]

Timeout == [kind |-> "timeout"]

NetworkError == [kind |-> "network_error"]

\* Mutant of ExecuteV1CallResult: an upstream 5xx is passed through like a 4xx
ExecuteV1CallResult_PassThrough5xx(outcome) ==
    IF outcome.kind = "timeout" THEN V1OrchestratorError(504, <<>>)
    ELSE IF outcome.kind = "network_error"
    THEN V1OrchestratorError(502, [error |-> "network_error"])
    ELSE IF outcome.status_code = 404
    THEN V1OrchestratorError(404, [v1_response |-> outcome.body.text])
    ELSE IF outcome.status_code >= 400
    THEN V1OrchestratorError(outcome.status_code, [v1_response |-> outcome.body.text])
    ELSE IF ~(outcome.status_code \in 200..299)
    THEN OtherException("HTTPStatusError")
    ELSE IF ~outcome.body.decodes
    THEN OtherException("JSONDecodeError")
    ELSE Returned(outcome.body.data)

\* execute_v1_call from the arrival of the response on: the status mapping,
\* raise_for_status, response.json() and the two except clauses
ExecuteV1CallResult(outcome) ==
    IF outcome.kind = "timeout" THEN V1OrchestratorError(504, <<>>)
    ELSE IF outcome.kind = "network_error"
    THEN V1OrchestratorError(502, [error |-> "network_error"])
    ELSE IF outcome.status_code = 404
    THEN V1OrchestratorError(404, [v1_response |-> outcome.body.text])
    ELSE IF outcome.status_code >= 500
    THEN V1OrchestratorError(502, [v1_status   |-> outcome.status_code,
                                   v1_response |-> outcome.body.text])
    ELSE IF outcome.status_code >= 400
    THEN V1OrchestratorError(outcome.status_code, [v1_response |-> outcome.body.text])
    \* response.raise_for_status(): HTTPStatusError for a status outside 2xx
    ELSE IF ~(outcome.status_code \in 200..299)
    THEN OtherException("HTTPStatusError")
    \* response.json()
    ELSE IF ~outcome.body.decodes
    THEN OtherException("JSONDecodeError")
    ELSE Returned(outcome.body.data)

\* Mutant of AfterRequestSent: the request is not awaited, the loop goes on
AfterRequestSent_NoAwait(i) == [pc |-> "loop", idx |-> i + 1]

\* `response = await self.client.request(...)`: the coroutine is suspended
\* until the response of call i arrives
AfterRequestSent(i) == [pc |-> "awaiting", idx |-> i]

\* Mutant of OrchestrateAfterCall: best effort, a failed call is skipped
OrchestrateAfterCall_BestEffort(cfg, i, responses, res) ==
    IF res.kind = "return"
    THEN [pc |-> "loop", idx |-> i + 1,
          v1_responses |-> DictSet(responses, cfg.v1_calls[i].name, res.data),
          result |-> NoResult]
    ELSE [pc |-> "loop", idx |-> i + 1, v1_responses |-> responses, result |-> NoResult]

\* Mutant of OrchestrateAfterCall: the response is stored under the call's
\* endpoint instead of its name
OrchestrateAfterCall_KeyedByEndpoint(cfg, i, responses, res) ==
    IF res.kind = "return"
    THEN [pc |-> "loop", idx |-> i + 1,
          v1_responses |-> DictSet(responses, cfg.v1_calls[i].endpoint, res.data),
          result |-> NoResult]
    ELSE IF res.kind = "V1OrchestratorError"
    THEN [pc |-> "raised", idx |-> i, v1_responses |-> responses, result |-> res]
    ELSE [pc |-> "escaped", idx |-> i, v1_responses |-> responses, result |-> res]

\* the body of orchestrate's for loop once execute_v1_call(call i) is over:
\* store the response under the call's name and go on, or let the exception out
OrchestrateAfterCall(cfg, i, responses, res) ==
    IF res.kind = "return"
    THEN [pc |-> "loop", idx |-> i + 1,
          v1_responses |-> DictSet(responses, cfg.v1_calls[i].name, res.data),
          result |-> NoResult]
    ELSE IF res.kind = "V1OrchestratorError"
    THEN [pc |-> "raised", idx |-> i, v1_responses |-> responses, result |-> res]
    ELSE [pc |-> "escaped", idx |-> i, v1_responses |-> responses, result |-> res]

NoHistory ==
    /\ idx = 1
    /\ in_flight = {}
    /\ dispatched = <<>>
    /\ last_outcome = NoResult
    /\ last_result = NoResult

LoaderIdle ==
    /\ raw_config = NoValue
    /\ configs = <<>>

BuilderIdle ==
    /\ v2_response = <<>>
    /\ written = {}
    /\ failed = {}
    /\ nested_in = NoValue
    /\ read_back = NoResult
    /\ memory = NoValue
    /\ runs = <<>>

RequestIdle ==
    /\ request = NoValue
    /\ answer = NoResult

TransformIdle ==
    /\ xform_in = NoValue
    /\ context = <<>>

ServerIdle ==
    /\ store = <<>>
    /\ dicts = <<>>
    /\ endpoint_configs = "own"
    /\ routes = <<>>
    /\ watcher = NoValue
    /\ client = NoValue
    /\ requests = <<>>
    /\ observed = NoValue

-----------------------------------------------------------------------------
(* The documents, parameter bags and upstream outcomes the orchestrator is run on *)

PathParam(v1_param) == [k \in {"path"} |-> <<ParamMapping(<<"x">>, v1_param, "path")>>]

CallPool ==
    { V1ApiCall(<<"p">>, <<"/", "p", "/", "{", "i", "}">>, "GET", PathParam(<<"i">>)),
      V1ApiCall(<<"c">>, <<"/", "c">>, "GET", <<>>),
      V1ApiCall(<<"p">>, <<"/", "q", "/", ":", "i">>, "POST", PathParam(<<"i">>)) }

ParamBags ==
    { <<>>,
      [k \in {<<"x">>} |-> StrVal(<<"7">>)],
      [k \in {<<"x">>} |-> IntVal(12)] }

RECURSIVE SeqsUpTo(_, _)
SeqsUpTo(S, n) ==
    IF n = 0 THEN {<<>>}
    ELSE LET shorter == SeqsUpTo(S, n - 1)
         IN  shorter \cup {Append(q, e) : q \in {t \in shorter : Len(t) = n - 1}, e \in S}

Bodies ==
    { [text |-> "b1", decodes |-> TRUE,
       data |-> Dict([k \in {<<"n">>} |-> StrVal(<<"v">>)])],
      [text |-> "b2", decodes |-> TRUE, data |-> EmptyDict],
      [text |-> "oops", decodes |-> FALSE, data |-> NoValue] }

StatusCodes == {200, 201, 304, 400, 404, 422, 500, 503}

UpstreamOutcomes ==
    {HttpResponse(s, b) : s \in StatusCodes, b \in Bodies} \cup {Timeout, NetworkError}

\* stands for field_mappings, which orchestrate never reads
StubMappings == <<FieldMapping(<<"f">>, STUB, <<>>, <<>>, NoValue)>>

\* the documents the loader accepts
OrchDocs ==
    {d \in {MappingConfig(calls, StubMappings) : calls \in SeqsUpTo(CallPool, MaxCalls)} :
        load_config(d).kind = "return"}

-----------------------------------------------------------------------------
(* orchestrate(config, v2_params) *)

OrchInit ==
    /\ config \in OrchDocs
    /\ v2_params \in ParamBags
    /\ pc = "loop"
    /\ v1_responses = <<>>
    /\ result = NoResult
    /\ NoHistory
    /\ LoaderIdle
    /\ BuilderIdle
    /\ RequestIdle
    /\ TransformIdle
    /\ ServerIdle

\* One iteration of the for loop up to the await: execute_v1_call builds the
\* URL (a missing path parameter raises 400 out of orchestrate before any
\* request is made) and hands the request to the HTTP client.
ExecuteV1CallRequest ==
    /\ pc = "loop"
    /\ idx <= Len(config.v1_calls)
    /\ LET url == build_v1_url(config.v1_calls[idx], v2_params)
       IN  IF url.kind = "return"
           THEN /\ pc' = AfterRequestSent(idx).pc
                /\ idx' = AfterRequestSent(idx).idx
                /\ in_flight' = in_flight \cup {idx}
                /\ dispatched' = Append(dispatched, idx)
                /\ UNCHANGED <<v1_responses, last_result, result>>
           ELSE LET after == OrchestrateAfterCall(config, idx, v1_responses, url)
                IN  /\ pc' = after.pc
                    /\ idx' = after.idx
                    /\ v1_responses' = after.v1_responses
                    /\ result' = after.result
                    /\ last_result' = url
                    /\ UNCHANGED <<in_flight, dispatched>>
    /\ last_outcome' = NoResult
    /\ UNCHANGED <<config, v2_params, loadVars, buildVars, reqVars, xformVars, serverVars>>

\* The awaited response (or transport fault) arrives: the rest of
\* execute_v1_call, then the rest of the loop body.
ExecuteV1CallResponse(outcome) ==
    /\ pc = "awaiting"
    /\ idx \in in_flight
    /\ LET res   == ExecuteV1CallResult(outcome)
           after == OrchestrateAfterCall(config, idx, v1_responses, res)
       IN  /\ pc' = after.pc
           /\ idx' = after.idx
           /\ v1_responses' = after.v1_responses
           /\ result' = after.result
           /\ last_result' = res
    /\ in_flight' = in_flight \ {idx}
    /\ last_outcome' = outcome
    /\ UNCHANGED <<config, v2_params, dispatched, loadVars, buildVars, reqVars, xformVars, serverVars>>

\* The loop is over: return v1_responses
OrchestrateReturn ==
    /\ pc = "loop"
    /\ idx > Len(config.v1_calls)
    /\ pc' = "returned"
    /\ result' = Returned(v1_responses)
    /\ UNCHANGED <<config, v2_params, v1_responses, histVars, loadVars, buildVars,
                   reqVars, xformVars, serverVars>>

OrchNext ==
    \/ ExecuteV1CallRequest
    \/ \E outcome \in UpstreamOutcomes : ExecuteV1CallResponse(outcome)
    \/ OrchestrateReturn

OrchSpec == OrchInit /\ [][OrchNext]_vars

\* C1: fail-fast orchestration.  When call k fails, the exception that leaves
\* orchestrate is the one execute_v1_call raised for call k (a
\* V1OrchestratorError whenever that is what the call raised), no call declared
\* after k has been dispatched or is dispatched later, and no response set is
\* returned, although the responses of calls 1..k-1 were stored.
FailFast ==
    /\ [](last_result.kind \notin {"none", "return"} =>
            /\ pc \in {"raised", "escaped"}
            /\ result = last_result
            /\ result.kind # "return"
            /\ (pc = "raised" <=> result.kind = "V1OrchestratorError")
            /\ \A k \in Range(dispatched) : k <= idx
            /\ in_flight = {})
    /\ [][(pc \in {"raised", "escaped"}) =>
            (dispatched' = dispatched /\ result' = result /\ pc' = pc)]_vars

\* C1 witness: the second of three calls failed after the first one's response
\* was stored
FailFastWitness ==
    /\ pc = "raised"
    /\ idx = 2
    /\ Len(config.v1_calls) = 3
    /\ v1_responses # <<>>
    /\ last_outcome.kind = "response"

\* C2: the calls of a request are dispatched in declaration order, one at a
\* time and once each: the dispatch history is 1, 2, .., n, at most one call
\* is in flight, and every call but the latest dispatched has had its response
\* decoded and stored.
SequentialDispatch ==
    /\ Cardinality(in_flight) <= 1
    /\ dispatched = [j \in 1..Len(dispatched) |-> j]
    /\ \A j \in 1..(Len(dispatched) - 1) :
          /\ j \notin in_flight
          /\ config.v1_calls[j].name \in DOMAIN v1_responses

\* C2 witness: the third call is in flight after two completed calls
SequentialDispatchWitness ==
    /\ pc = "awaiting"
    /\ dispatched = <<1, 2, 3>>
    /\ in_flight = {3}

\* C3: execute_v1_call maps each upstream outcome to one result: 2xx with a
\* JSON body returns the decoded body; 404 raises status 404; a status >= 500
\* raises 502 with the upstream status and body as details; another 4xx raises
\* the upstream status; a timeout raises 504; a network fault raises 502.
OutcomeMapping ==
    last_outcome # NoResult =>
        LET o == last_outcome
            r == last_result
        IN  /\ o.kind = "timeout" =>
                 r.kind = "V1OrchestratorError" /\ r.status_code = 504
            /\ o.kind = "network_error" =>
                 r.kind = "V1OrchestratorError" /\ r.status_code = 502
            /\ o.kind = "response" =>
                 /\ (o.status_code \in 200..299 /\ o.body.decodes) =>
                       r = Returned(o.body.data)
                 /\ o.status_code \in 200..299 => r.kind # "V1OrchestratorError"
                 /\ o.status_code = 404 =>
                       r.kind = "V1OrchestratorError" /\ r.status_code = 404
                 /\ o.status_code >= 500 =>
                       /\ r.kind = "V1OrchestratorError"
                       /\ r.status_code = 502
                       /\ r.details.v1_status = o.status_code
                       /\ r.details.v1_response = o.body.text
                 /\ (o.status_code \in 400..499 /\ o.status_code # 404) =>
                       r.kind = "V1OrchestratorError" /\ r.status_code = o.status_code

\* C3 witness: an upstream 503 became a 502
OutcomeMappingWitness ==
    /\ last_outcome.kind = "response"
    /\ last_outcome.status_code = 503
    /\ last_result.kind = "V1OrchestratorError"
    /\ last_result.status_code = 502

\* C4: orchestrate either returns a response set or fails with a
\* V1OrchestratorError of status 400, 404, 502, 504 or a passed-through 4xx;
\* no other failure leaves it.
OnlyOrchestrationErrors ==
    /\ pc # "escaped"
    /\ pc = "returned" => result.kind = "return"
    /\ pc = "raised" =>
          /\ result.kind = "V1OrchestratorError"
          /\ result.status_code \in {400, 404, 502, 504} \cup (400..499)

-----------------------------------------------------------------------------
(* _build_v1_url on its own: endpoint templates, path mappings, bags *)

RECURSIVE Flatten(_)
Flatten(qs) == IF qs = <<>> THEN <<>> ELSE Head(qs) \o Flatten(Tail(qs))

\* "/{a}", "/:a", "/{ab}", "/:ab", "/x"
SegmentPool ==
    { <<"/", "{", "a", "}">>, <<"/", ":", "a">>,
      <<"/", "{", "a", "b", "}">>, <<"/", ":", "a", "b">>,
      <<"/", "x">> }

EndpointTemplates == {Flatten(segs) : segs \in SeqsUpTo(SegmentPool, MaxSegments)}

MapA == ParamMapping(<<"x">>, <<"a">>, "path")

MapAB == ParamMapping(<<"y">>, <<"a", "b">>, "path")

PathParamLists == {<<>>, <<MapA>>, <<MapAB>>, <<MapA, MapAB>>, <<MapAB, MapA>>}

UrlCalls ==
    {V1ApiCall(<<"u">>, t, "GET", [k \in {"path"} |-> maps]) :
        t \in EndpointTemplates, maps \in PathParamLists}
    \cup {V1ApiCall(<<"u">>, t, "GET", <<>>) : t \in EndpointTemplates}

UrlBags ==
    LET xs == {NoValue, StrVal(<<"7">>), IntVal(12)}
        ys == {NoValue, StrVal(<<"5">>)}
    IN  {[k \in {n \in {<<"x">>, <<"y">>} :
                    (IF n = <<"x">> THEN x ELSE y) # NoValue}
             |-> IF k = <<"x">> THEN x ELSE y] : x \in xs, y \in ys}

UrlInit ==
    /\ config \in {MappingConfig(<<c>>, StubMappings) : c \in UrlCalls}
    /\ v2_params \in UrlBags
    /\ pc = "url"
    /\ v1_responses = <<>>
    /\ result = NoResult
    /\ NoHistory
    /\ LoaderIdle
    /\ BuilderIdle
    /\ RequestIdle
    /\ TransformIdle
    /\ ServerIdle

BuildV1Url ==
    /\ pc = "url"
    /\ pc' = "url_done"
    /\ result' = build_v1_url(config.v1_calls[1], v2_params)
    /\ UNCHANGED <<config, v2_params, v1_responses, histVars, loadVars, buildVars,
                   reqVars, xformVars, serverVars>>

UrlNext == BuildV1Url

UrlSpec == UrlInit /\ [][UrlNext]_vars

\* What the placeholders of a template are: "{name}", and ":name" where name
\* is the longest run of identifier characters after the colon.
NameChars == {"a", "b", "x"}

RECURSIVE NameRun(_)
NameRun(s) ==
    IF s # <<>> /\ Head(s) \in NameChars THEN <<Head(s)>> \o NameRun(Tail(s)) ELSE <<>>

RECURSIVE UpToBrace(_)
UpToBrace(s) ==
    IF s = <<>> \/ Head(s) = "}" THEN <<>> ELSE <<Head(s)>> \o UpToBrace(Tail(s))

DeclaredPathMaps(v1_call) ==
    IF "path" \in DOMAIN v1_call.params THEN Range(v1_call.params["path"]) ELSE {}

\* The template with every placeholder of a declared path parameter replaced
\* by the string form of its value, all at once
RECURSIVE SubstitutePlaceholders(_, _, _)
SubstitutePlaceholders(s, maps, params) ==
    LET ValueOf(name) ==
            PyStr(DictGet(params, (CHOOSE m \in maps : m.v1_param = name).v2_param))
        Declared(name) == \E m \in maps : m.v1_param = name
    IN  IF s = <<>> THEN <<>>
        ELSE IF Head(s) = "{" /\ Len(UpToBrace(Tail(s))) < Len(Tail(s))
        THEN LET name == UpToBrace(Tail(s))
                 rest == Drop(s, Len(name) + 2)
             IN  (IF Declared(name) THEN ValueOf(name) ELSE <<"{">> \o name \o <<"}">>)
                 \o SubstitutePlaceholders(rest, maps, params)
        ELSE IF Head(s) = ":"
        THEN LET name == NameRun(Tail(s))
                 rest == Drop(s, Len(name) + 1)
             IN  (IF Declared(name) THEN ValueOf(name) ELSE <<":">> \o name)
                 \o SubstitutePlaceholders(rest, maps, params)
        ELSE <<Head(s)>> \o SubstitutePlaceholders(Tail(s), maps, params)

\* the names of the placeholders of a template
RECURSIVE PlaceholderNames(_)
PlaceholderNames(s) ==
    IF s = <<>> THEN {}
    ELSE IF Head(s) = "{" /\ Len(UpToBrace(Tail(s))) < Len(Tail(s))
    THEN {UpToBrace(Tail(s))} \cup PlaceholderNames(Drop(s, Len(UpToBrace(Tail(s))) + 2))
    ELSE IF Head(s) = ":"
    THEN {NameRun(Tail(s))} \cup PlaceholderNames(Drop(s, Len(NameRun(Tail(s))) + 1))
    ELSE PlaceholderNames(Tail(s))

\* C5: _build_v1_url fails with status 400 exactly when a declared path
\* parameter's v2_param is absent from the bag, and otherwise returns the base
\* URL followed by the template with every {v1_param} and :v1_param
\* placeholder replaced by the string form of the parameter's value (stated
\* for the templates all of whose placeholders are declared path parameters).
UrlSubstitution ==
    pc = "url_done" =>
        LET v1_call == config.v1_calls[1]
            maps    == DeclaredPathMaps(v1_call)
            missing == \E m \in maps : DictGet(v2_params, m.v2_param) = NoValue
        IN  /\ missing <=> (result.kind = "V1OrchestratorError" /\ result.status_code = 400)
            /\ (~missing /\ PlaceholderNames(v1_call.endpoint) \subseteq
                                {m.v1_param : m \in maps}) =>
                  result = Returned(v1_base_url
                              \o SubstitutePlaceholders(v1_call.endpoint, maps, v2_params))

-----------------------------------------------------------------------------
(* Loading a mapping document: config_loader.py and the validators of models.py *)

\* "p", "c", "c_" are valid names; "-" and "_" are not
NamePool == {<<"p">>, <<"c">>, <<"c", "_">>, <<"-">>, <<"_">>}

RawCalls == {V1ApiCall(n, <<"/", "c">>, "GET", <<>>) : n \in NamePool}

\* sources: 'stub', two call names, and a name no pool call has
SourcePool == {STUB, <<"p">>, <<"c">>, <<"g">>}

\* "{{x}}" is a Jinja2 expression, "x" is not
RawMappings ==
    {FieldMapping(<<"f">>, src, <<"n">>, t, NoValue) :
        src \in SourcePool, t \in {<<>>, <<"{", "{", "x", "}", "}">>}}
    \cup {FieldMapping(<<"f">>, <<"p">>, <<>>, <<"x">>, NoValue)}

RawDocs ==
    {MappingConfig(calls, maps) :
        calls \in SeqsUpTo(RawCalls, MaxLoadCalls), maps \in SeqsUpTo(RawMappings, MaxMappings)}

\* a document loaded from an earlier version of the file
OldDoc == MappingConfig(<<V1ApiCall(<<"p">>, <<"/", "c">>, "GET", <<>>)>>, StubMappings)

LoadInit ==
    /\ raw_config \in RawDocs
    /\ configs \in {<<>>, [id \in {"e1"} |-> OldDoc]}
    /\ pc = "load"
    /\ config = NoValue
    /\ v2_params = <<>>
    /\ v1_responses = <<>>
    /\ result = NoResult
    /\ NoHistory
    /\ BuilderIdle
    /\ RequestIdle
    /\ TransformIdle
    /\ ServerIdle

\* load_all_configs, one file: self._configs[endpoint_id] = self.load_config(file);
\* the assignment is not reached when load_config raises
LoadConfig ==
    /\ pc = "load"
    /\ LET r == load_config(raw_config)
       IN  /\ result' = r
           /\ IF r.kind = "return"
              THEN /\ configs' = DictSet(configs, "e1", r.data)
                   /\ pc' = "loaded"
              ELSE /\ configs' = configs
                   /\ pc' = "load_failed"
    /\ UNCHANGED <<config, v2_params, v1_responses, histVars, raw_config, buildVars,
                   reqVars, xformVars, serverVars>>

LoadNext == LoadConfig

LoadSpec == LoadInit /\ [][LoadNext]_vars

SourcesResolve(doc) ==
    \A m \in Range(doc.field_mappings) :
        m.source = STUB \/ \E c \in Range(doc.v1_calls) : c.name = m.source

\* the other checks of the schema: both lists non-empty, call names valid,
\* transforms written as expressions
OtherwiseWellFormed(doc) ==
    /\ Len(doc.v1_calls) >= 1
    /\ Len(doc.field_mappings) >= 1
    /\ \A c \in Range(doc.v1_calls) : name_must_be_valid_identifier(c.name)
    /\ \A m \in Range(doc.field_mappings) : transform_uses_jinja2(m.transform)

\* C6: a mapping document (one that meets the other checks of the schema)
\* loads if and only if every field mapping's source is 'stub' or the name of a
\* declared call; otherwise the load fails with the referential error; and a
\* document with a dangling source is never put in the registry.
LoadIffSourcesResolve ==
    pc \in {"loaded", "load_failed"} =>
        /\ OtherwiseWellFormed(raw_config) =>
              /\ result.kind = "return" <=> SourcesResolve(raw_config)
              /\ ~SourcesResolve(raw_config) =>
                    /\ result.kind = "ValueError"
                    /\ "field_mappings.source" \in result.errors
        /\ ~SourcesResolve(raw_config) =>
              /\ result.kind = "ValueError"
              /\ \A id \in DOMAIN configs : configs[id] # raw_config
        /\ result.kind = "return" => configs["e1"] = raw_config

\* C6 witness: a document whose only fault is a dangling source was rejected,
\* and the registry kept the earlier document
LoadIffSourcesResolveWitness ==
    /\ pc = "load_failed"
    /\ result.errors = {"field_mappings.source"}
    /\ Len(raw_config.field_mappings) = 2
    /\ "e1" \in DOMAIN configs

\* C7: the call names of every loaded document are unique.
UniqueCallNames ==
    \A id \in DOMAIN configs :
        \A i, j \in DOMAIN configs[id].v1_calls :
            configs[id].v1_calls[i].name = configs[id].v1_calls[j].name => i = j

-----------------------------------------------------------------------------
(* transformer.py: _coerce_type, with str.strip, json.loads, int and float *)

BoolVal(b) == [kind |-> "bool", b |-> b]

\* a float is m * 10^e with no trailing zero in m, or inf, -inf, nan
FloatVal(m, e) == [kind |-> "float", m |-> m, e |-> e]

FloatSpecial(name) == [kind |-> "float", special |-> name]

ListVal(items) == [kind |-> "list", items |-> items]

WhiteSpace == {" "}

RECURSIVE LStrip(_)
LStrip(s) == IF s # <<>> /\ Head(s) \in WhiteSpace THEN LStrip(Tail(s)) ELSE s

Reverse(s) == [i \in 1..Len(s) |-> s[Len(s) + 1 - i]]

\* str.strip()
Strip(s) == Reverse(LStrip(Reverse(LStrip(s))))

UpperCase == <<"A", "B", "C", "D", "E", "F", "G", "H", "I", "J", "K", "L", "M",
               "N", "O", "P", "Q", "R", "S", "T", "U", "V", "W", "X", "Y", "Z">>

LowerCase == <<"a", "b", "c", "d", "e", "f", "g", "h", "i", "j", "k", "l", "m",
               "n", "o", "p", "q", "r", "s", "t", "u", "v", "w", "x", "y", "z">>

\* str.lower()
Lower(s) ==
    [i \in 1..Len(s) |->
        IF \E j \in 1..26 : UpperCase[j] = s[i]
        THEN LowerCase[CHOOSE j \in 1..26 : UpperCase[j] = s[i]]
        ELSE s[i]]

DigitChars == <<"0", "1", "2", "3", "4", "5", "6", "7", "8", "9">>

IsDigit(c) == \E i \in 1..10 : DigitChars[i] = c

DigitValue(c) == (CHOOSE i \in 1..10 : DigitChars[i] = c) - 1

\* the longest prefix of s made of digits
RECURSIVE DigitRun(_)
DigitRun(s) ==
    IF s # <<>> /\ IsDigit(Head(s)) THEN <<Head(s)>> \o DigitRun(Tail(s)) ELSE <<>>

RECURSIVE DigitsValue(_)
DigitsValue(ds) ==
    IF ds = <<>> THEN 0
    ELSE DigitsValue(SubSeq(ds, 1, Len(ds) - 1)) * 10 + DigitValue(ds[Len(ds)])

ParseFailed == [ok |-> FALSE]

Parsed(value, rest) == [ok |-> TRUE, value |-> value, rest |-> rest]

\* m * 10^e without the trailing zeros of m
RECURSIVE Normalize(_, _)
Normalize(m, e) ==
    IF m = 0 THEN FloatVal(0, 0)
    ELSE IF m % 10 = 0 THEN Normalize(m \div 10, e + 1)
    ELSE FloatVal(m, e)

\* digits with single underscores between them, as int() and float() take them
IsDigitPart(s) ==
    /\ s # <<>>
    /\ IsDigit(s[1])
    /\ IsDigit(s[Len(s)])
    /\ \A i \in DOMAIN s : IsDigit(s[i]) \/ s[i] = "_"
    /\ \A i \in 1..(Len(s) - 1) : ~(s[i] = "_" /\ s[i + 1] = "_")

NotUnderscore(c) == c # "_"

HasSign(s) == s # <<>> /\ Head(s) \in {"-", "+"}

Unsigned(s) == IF HasSign(s) THEN Tail(s) ELSE s

Signed(s, n) == IF HasSign(s) /\ Head(s) = "-" THEN 0 - n ELSE n

\* int(value) on a stripped string: an optional sign and decimal digits
py_int(s) ==
    IF IsDigitPart(Unsigned(s))
    THEN Parsed(IntVal(Signed(s, DigitsValue(SelectSeq(Unsigned(s), NotUnderscore)))), <<>>)
    ELSE ParseFailed

\* the index of the first character of s that is in the set, or 0
FirstOf(s, chars) ==
    IF \E i \in DOMAIN s : s[i] \in chars
    THEN CHOOSE i \in DOMAIN s : s[i] \in chars /\ \A j \in 1..(i - 1) : s[j] \notin chars
    ELSE 0

\* float(value) on a stripped string: [sign] digits [. digits] [e [sign] digits],
\* one of the two digit runs of the mantissa may be missing; or inf, infinity, nan
py_float(s) ==
    LET body     == Unsigned(s)
        epos     == FirstOf(body, {"e", "E"})
        mantissa == IF epos = 0 THEN body ELSE SubSeq(body, 1, epos - 1)
        exponent == IF epos = 0 THEN <<>> ELSE Drop(body, epos)
        dot      == FirstOf(mantissa, {"."})
        whole    == IF dot = 0 THEN mantissa ELSE SubSeq(mantissa, 1, dot - 1)
        frac     == IF dot = 0 THEN <<>> ELSE Drop(mantissa, dot)
        wdigits  == SelectSeq(whole, NotUnderscore)
        fdigits  == SelectSeq(frac, NotUnderscore)
        exp      == IF epos = 0 THEN 0
                    ELSE Signed(exponent, DigitsValue(SelectSeq(Unsigned(exponent), NotUnderscore)))
    IN  IF Lower(body) \in {<<"i", "n", "f">>, <<"i", "n", "f", "i", "n", "i", "t", "y">>}
        THEN Parsed(FloatSpecial(IF HasSign(s) /\ Head(s) = "-" THEN "-inf" ELSE "inf"), <<>>)
        ELSE IF Lower(body) = <<"n", "a", "n">> THEN Parsed(FloatSpecial("nan"), <<>>)
        ELSE IF /\ whole = <<>> \/ IsDigitPart(whole)
                /\ frac = <<>> \/ IsDigitPart(frac)
                /\ ~(whole = <<>> /\ frac = <<>>)
                /\ epos # 0 => IsDigitPart(Unsigned(exponent))
        THEN LET n == Normalize(DigitsValue(wdigits \o fdigits), exp - Len(fdigits))
             IN  Parsed(FloatVal(Signed(s, n.m), n.e), <<>>)
        ELSE ParseFailed

\* a JSON number at the start of s: -?(0|[1-9]\d*)(\.\d+)?([eE][-+]?\d+)?,
\* an int without fraction and exponent, a float otherwise
JsonNumber(s) ==
    LET body   == IF s # <<>> /\ Head(s) = "-" THEN Tail(s) ELSE s
        run    == DigitRun(body)
        whole  == IF run # <<>> /\ Head(run) = "0" THEN <<"0">> ELSE run
        after1 == Drop(body, Len(whole))
        fdig   == IF after1 # <<>> /\ Head(after1) = "." THEN DigitRun(Tail(after1)) ELSE <<>>
        after2 == IF fdig = <<>> THEN after1 ELSE Drop(after1, Len(fdig) + 1)
        etail  == IF after2 # <<>> /\ Head(after2) \in {"e", "E"} THEN Tail(after2) ELSE <<>>
        edig   == DigitRun(Unsigned(etail))
        after3 == IF edig = <<>> THEN after2
                  ELSE Drop(after2, 1 + Len(etail) - Len(Unsigned(etail)) + Len(edig))
        neg    == s # <<>> /\ Head(s) = "-"
        n      == Normalize(DigitsValue(whole \o fdig),
                            (IF edig = <<>> THEN 0 ELSE Signed(etail, DigitsValue(edig)))
                            - Len(fdig))
    IN  IF whole = <<>> THEN ParseFailed
        ELSE IF fdig = <<>> /\ edig = <<>>
        THEN Parsed(IntVal(IF neg THEN 0 - DigitsValue(whole) ELSE DigitsValue(whole)), after3)
        ELSE Parsed(FloatVal(IF neg THEN 0 - n.m ELSE n.m, n.e), after3)

\* a JSON string at the start of s (the strings of the model hold no escapes)
JsonString(s) ==
    IF s # <<>> /\ Head(s) = "\"" /\ FirstOf(Tail(s), {"\""}) # 0
    THEN LET close == FirstOf(Tail(s), {"\""})
         IN  Parsed(SubSeq(Tail(s), 1, close - 1), Drop(Tail(s), close))
    ELSE ParseFailed

RECURSIVE JsonValue(_), JsonElements(_, _), JsonMembers(_, _)

\* a JSON value at the start of s
JsonValue(s) ==
    IF s = <<>> THEN ParseFailed
    ELSE IF Head(s) = "[" THEN
        IF LStrip(Tail(s)) # <<>> /\ Head(LStrip(Tail(s))) = "]"
        THEN Parsed(ListVal(<<>>), Tail(LStrip(Tail(s))))
        ELSE JsonElements(LStrip(Tail(s)), <<>>)
    ELSE IF Head(s) = "{" THEN
        IF LStrip(Tail(s)) # <<>> /\ Head(LStrip(Tail(s))) = "}"
        THEN Parsed(EmptyDict, Tail(LStrip(Tail(s))))
        ELSE JsonMembers(LStrip(Tail(s)), <<>>)
    ELSE IF Head(s) = "\"" THEN
        LET str == JsonString(s)
        IN  IF str.ok THEN Parsed(StrVal(str.value), str.rest) ELSE ParseFailed
    ELSE IF StartsWith(s, <<"t", "r", "u", "e">>) THEN Parsed(BoolVal(TRUE), Drop(s, 4))
    ELSE IF StartsWith(s, <<"f", "a", "l", "s", "e">>) THEN Parsed(BoolVal(FALSE), Drop(s, 5))
    ELSE IF StartsWith(s, <<"n", "u", "l", "l">>) THEN Parsed(NoValue, Drop(s, 4))
    ELSE JsonNumber(s)

\* the elements of an array from s on, up to the closing bracket
JsonElements(s, acc) ==
    LET v    == JsonValue(s)
        rest == LStrip(v.rest)
    IN  IF ~v.ok \/ rest = <<>> THEN ParseFailed
        ELSE IF Head(rest) = "]" THEN Parsed(ListVal(Append(acc, v.value)), Tail(rest))
        ELSE IF Head(rest) = "," THEN JsonElements(LStrip(Tail(rest)), Append(acc, v.value))
        ELSE ParseFailed

\* the members of an object from s on, up to the closing brace
JsonMembers(s, acc) ==
    LET key   == JsonString(s)
        colon == LStrip(key.rest)
        v     == JsonValue(LStrip(Tail(colon)))
        rest  == LStrip(v.rest)
    IN  IF ~key.ok \/ colon = <<>> \/ Head(colon) # ":" THEN ParseFailed
        ELSE IF ~v.ok \/ rest = <<>> THEN ParseFailed
        ELSE IF Head(rest) = "}"
        THEN Parsed(Dict(DictSet(acc, key.value, v.value)), Tail(rest))
        ELSE IF Head(rest) = ","
        THEN JsonMembers(LStrip(Tail(rest)), DictSet(acc, key.value, v.value))
        ELSE ParseFailed

\* json.loads(s): one JSON value and nothing but white space around it
json_loads(s) ==
    LET v == JsonValue(LStrip(s))
    IN  IF v.ok /\ LStrip(v.rest) = <<>> THEN Parsed(v.value, <<>>) ELSE ParseFailed

TrueFalse == {<<"t", "r", "u", "e">>, <<"f", "a", "l", "s", "e">>}

\* Mutant of coerce_type: the float parse is tried before the int parse
coerce_type_FloatFirst(value) ==
    LET v == Strip(value)
    IN  IF v # <<>> /\ Head(v) \in {"{", "["} /\ json_loads(v).ok THEN json_loads(v).value
        ELSE IF py_float(v).ok THEN py_float(v).value
        ELSE IF ~Contains(v, <<".">>) /\ py_int(v).ok THEN py_int(v).value
        ELSE IF Lower(v) \in TrueFalse THEN BoolVal(Lower(v) = <<"t", "r", "u", "e">>)
        ELSE StrVal(v)

\* FieldTransformer._coerce_type on a str (what render returns)
coerce_type(value) ==
    LET v == Strip(value)
    IN  IF v # <<>> /\ Head(v) \in {"{", "["} /\ json_loads(v).ok THEN json_loads(v).value
        ELSE IF ~Contains(v, <<".">>) /\ py_int(v).ok THEN py_int(v).value
        ELSE IF py_float(v).ok THEN py_float(v).value
        ELSE IF Lower(v) \in TrueFalse THEN BoolVal(Lower(v) = <<"t", "r", "u", "e">>)
        ELSE StrVal(v)

-----------------------------------------------------------------------------
(* transformer.py and response_builder.py *)

TransformationError == [kind |-> "TransformationError"]

ResponseBuilderError == [kind |-> "ResponseBuilderError"]

NonEmpty(key) == key # <<>>

\* the index of the first "." of s, or 0
FirstDot(s) ==
    IF \E i \in DOMAIN s : s[i] = "."
    THEN CHOOSE i \in DOMAIN s : s[i] = "." /\ \A j \in 1..(i - 1) : s[j] # "."
    ELSE 0

\* path.split('.')
RECURSIVE Split(_)
Split(s) ==
    IF FirstDot(s) = 0 THEN <<s>>
    ELSE <<SubSeq(s, 1, FirstDot(s) - 1)>> \o Split(Drop(s, FirstDot(s)))

\* path[1:] when path starts with a dot
StripLeadingDot(path) == IF StartsWith(path, <<".">>) THEN Tail(path) ELSE path

\* the loop of get_nested_value over the keys
RECURSIVE Navigate(_, _)
Navigate(value, keys) ==
    IF keys = <<>> THEN value
    ELSE IF Head(keys) = <<>> THEN Navigate(value, Tail(keys))
    ELSE IF value.kind = "dict"
         THEN LET v == DictGet(value.items, Head(keys))
              IN  IF v = NoValue THEN NoValue ELSE Navigate(v, Tail(keys))
         ELSE NoValue

\* FieldTransformer.get_nested_value(data, path)
get_nested_value(data, path) ==
    IF path = <<>> THEN data
    ELSE IF StripLeadingDot(path) = <<>> THEN data
    ELSE Navigate(data, Split(StripLeadingDot(path)))

\* Mutant of SetKeys: an intermediate segment that holds a non-dict value is
\* replaced by a new dict
RECURSIVE SetKeys_Overwrite(_, _, _)
SetKeys_Overwrite(current, keys, value) ==
    IF Len(keys) = 1 THEN Returned(DictSet(current, keys[1], value))
    ELSE LET key == Head(keys)
             sub == IF key \in DOMAIN current /\ current[key].kind = "dict"
                    THEN current[key].items ELSE <<>>
         IN  Returned(DictSet(current, key,
                              Dict(SetKeys_Overwrite(sub, Tail(keys), value).data)))

\* _set_nested_value from `current = obj` on: walk keys[:-1], creating the
\* missing dicts, then current[keys[-1]] = value.  The dict as it is after
\* the call, or the ResponseBuilderError of a non-dict intermediate (raised
\* before anything was created: below a created dict nothing can conflict).
RECURSIVE SetKeys(_, _, _)
SetKeys(current, keys, value) ==
    IF Len(keys) = 1 THEN Returned(DictSet(current, keys[1], value))
    ELSE LET key == Head(keys)
         IN  IF key \notin DOMAIN current
             THEN Returned(DictSet(current, key,
                                   Dict(SetKeys(<<>>, Tail(keys), value).data)))
             ELSE IF current[key].kind # "dict"
             THEN ResponseBuilderError
             ELSE LET below == SetKeys(current[key].items, Tail(keys), value)
                  IN  IF below.kind = "return"
                      THEN Returned(DictSet(current, key, Dict(below.data)))
                      ELSE below

\* V2ResponseBuilder._set_nested_value(obj, path, value); keys[-1] of an
\* empty key list is an IndexError
set_nested_value(obj, path, value) ==
    IF StripLeadingDot(path) = <<>> THEN ResponseBuilderError
    ELSE LET keys == SelectSeq(Split(StripLeadingDot(path)), NonEmpty)
         IN  IF keys = <<>> THEN OtherException("IndexError")
             ELSE SetKeys(obj, keys, value)

\* Python dicts are objects: a name or a dict entry holds a reference to the
\* dict, and a write through one reference is seen through all of them.  objs
\* is the sequence of the dict objects (each a function from keys to cells); a
\* cell is a scalar or list value, or the reference ObjRef(a) to object a.
ObjRef(a) == [kind |-> "dict", at |-> a]

\* a decoded JSON value put in memory, each dict as an object of its own: the
\* objects and the cell that refers to the value
RECURSIVE Store(_, _), StoreItems(_, _, _, _)
Store(objs, value) ==
    IF value.kind # "dict" THEN [objs |-> objs, cell |-> value]
    ELSE LET a == Len(objs) + 1
         IN  [objs |-> StoreItems(Append(objs, <<>>), a, value.items, DOMAIN value.items),
              cell |-> ObjRef(a)]

StoreItems(objs, a, items, keys) ==
    IF keys = {} THEN objs
    ELSE LET key   == CHOOSE k \in keys : TRUE
             child == Store(objs, items[key])
         IN  StoreItems([child.objs EXCEPT ![a] = DictSet(@, key, child.cell)],
                        a, items, keys \ {key})

\* the value a cell stands for, as the JSON encoder would walk it; a dict that
\* is reached again below itself is a circular reference
RECURSIVE ViewOf(_, _, _)
ViewOf(objs, cell, above) ==
    IF cell.kind # "dict" THEN cell
    ELSE IF cell.at \in above THEN [kind |-> "circular"]
    ELSE Dict([k \in DOMAIN objs[cell.at] |->
                  ViewOf(objs, objs[cell.at][k], above \cup {cell.at})])

View(objs, cell) == ViewOf(objs, cell, {})

\* the loop of get_nested_value over the keys, on objects
RECURSIVE NavigateIn(_, _, _)
NavigateIn(objs, value, keys) ==
    IF keys = <<>> THEN value
    ELSE IF Head(keys) = <<>> THEN NavigateIn(objs, value, Tail(keys))
    ELSE IF value.kind = "dict"
         THEN LET v == DictGet(objs[value.at], Head(keys))
              IN  IF v = NoValue THEN NoValue ELSE NavigateIn(objs, v, Tail(keys))
         ELSE NoValue

\* Mutant of get_nested_value_in: a missing key is reported, not read as None
get_nested_value_in_Raising(objs, data, path) ==
    LET value == NavigateIn(objs, data, SelectSeq(Split(path), NonEmpty))
    IN  IF value = NoValue THEN OtherException("KeyError") ELSE value

\* FieldTransformer.get_nested_value(data, path) on objects: the cell found,
\* which is the dict itself (not a copy) when the path leads to a dict
get_nested_value_in(objs, data, path) ==
    IF path = <<>> THEN data
    ELSE IF StripLeadingDot(path) = <<>> THEN data
    ELSE NavigateIn(objs, data, Split(StripLeadingDot(path)))

\* _set_nested_value from `current = obj` on, on objects: the objects as they
\* are after the call, or the ResponseBuilderError of a non-dict intermediate
RECURSIVE SetKeysIn(_, _, _, _)
SetKeysIn(objs, current, keys, value) ==
    IF Len(keys) = 1 THEN Returned([objs EXCEPT ![current] = DictSet(@, keys[1], value)])
    ELSE LET key == Head(keys)
         IN  IF key \notin DOMAIN objs[current]
             THEN LET a == Len(objs) + 1
                  IN  SetKeysIn([Append(objs, <<>>) EXCEPT ![current] = DictSet(@, key, ObjRef(a))],
                                a, Tail(keys), value)
             ELSE IF objs[current][key].kind # "dict"
             THEN ResponseBuilderError
             ELSE SetKeysIn(objs, objs[current][key].at, Tail(keys), value)

\* V2ResponseBuilder._set_nested_value(obj, path, value) on objects; obj is
\* the address of the dict, value a cell (a dict is stored by reference)
set_nested_value_in(objs, obj, path, value) ==
    IF StripLeadingDot(path) = <<>> THEN ResponseBuilderError
    ELSE LET keys == SelectSeq(Split(StripLeadingDot(path)), NonEmpty)
         IN  IF keys = <<>> THEN OtherException("IndexError")
             ELSE SetKeysIn(objs, obj, keys, value)

SOURCE == <<"s", "o", "u", "r", "c", "e">>

\* Mutant of BuildContext: the responses by call name are not shadowed by the
\* keys of the source response
BuildContext_CallsWin(objs, responses, source_data) ==
    IF source_data.kind = "dict"
    THEN Returned([k \in DOMAIN responses \cup DOMAIN objs[source_data.at] \cup {SOURCE} |->
                      IF k = SOURCE THEN source_data
                      ELSE IF k \in DOMAIN responses THEN responses[k]
                      ELSE objs[source_data.at][k]])
    ELSE OtherException("TypeError")

\* apply_mapping: context = v1_responses.copy(); context.update(source_data);
\* context['source'] = source_data.  update raises for a response that is no
\* dict, except for one with nothing to iterate over ([] and "").
BuildContext(objs, responses, source_data) ==
    CASE source_data.kind = "dict" ->
            Returned([k \in DOMAIN responses \cup DOMAIN objs[source_data.at] \cup {SOURCE} |->
                         IF k = SOURCE THEN source_data
                         ELSE IF k \in DOMAIN objs[source_data.at] THEN objs[source_data.at][k]
                         ELSE responses[k]])
      [] source_data \in {ListVal(<<>>), StrVal(<<>>)} ->
            Returned(DictSet(responses, SOURCE, source_data))
      [] source_data.kind \in {"none", "int", "bool", "float"} ->
            OtherException("TypeError")

IdentChars == Range(LowerCase) \cup Range(UpperCase) \cup Range(DigitChars) \cup {"_"}

IsName(s) == s # <<>> /\ ~IsDigit(s[1]) /\ \A i \in DOMAIN s : s[i] \in IdentChars

\* repr(value) and str(value), which differ for a str only; a dict of several
\* keys is printed in insertion order, which the model does not record
RECURSIVE PyRepr(_)
PyRepr(value) ==
    CASE value.kind = "str"  -> <<"'">> \o value.s \o <<"'">>
      [] value.kind = "int"  -> IF value.n < 0 THEN <<"-">> \o Decimal(0 - value.n)
                                ELSE Decimal(value.n)
      [] value.kind = "none" -> <<"N", "o", "n", "e">>
      [] value.kind = "bool" -> IF value.b THEN <<"T", "r", "u", "e">>
                                ELSE <<"F", "a", "l", "s", "e">>
      [] value.kind = "dict" /\ value.items = <<>> -> <<"{", "}">>
      [] value.kind = "dict" /\ Cardinality(DOMAIN value.items) = 1 ->
            LET key == CHOOSE k \in DOMAIN value.items : TRUE
            IN  <<"{", "'">> \o key \o <<"'", ":", " ">> \o PyRepr(value.items[key]) \o <<"}">>
      [] value.kind = "list" /\ value.items = <<>> -> <<"[", "]">>

\* Mutant of PyText: a str is rendered as its repr, with quotes
PyText_Repr(value) == PyRepr(value)

\* str(value) of the value of an expression
PyText(value) == IF value.kind = "str" THEN value.s ELSE PyRepr(value)

\* a.b.c of an expression: a is looked up in the context, b and c as keys of
\* the dicts on the way (the keys of the model are no method names of dict or
\* str); a missing name gives StrictUndefined, which raises when it is used
RECURSIVE GetAttrs(_, _, _)
GetAttrs(objs, value, names) ==
    IF names = <<>> THEN Returned(value)
    ELSE IF value.kind = "dict" /\ Head(names) \in DOMAIN objs[value.at]
    THEN GetAttrs(objs, objs[value.at][Head(names)], Tail(names))
    ELSE TransformationError

\* the value of the expression between "{{" and "}}"; the expressions of the
\* model are dotted names (and the empty expression, a syntax error)
Evaluate(objs, expr, ctx) ==
    CASE expr = <<>> -> TransformationError
      [] expr # <<>> /\ \A i \in DOMAIN Split(expr) : IsName(Split(expr)[i]) ->
            LET names == Split(expr)
            IN  IF names[1] \in DOMAIN ctx
                THEN GetAttrs(objs, ctx[names[1]], Tail(names))
                ELSE TransformationError

\* the index at which sub first starts in s, or 0
Find(s, sub) ==
    IF Contains(s, sub)
    THEN CHOOSE i \in 1..Len(s) :
            /\ SubSeq(s, i, i + Len(sub) - 1) = sub
            /\ \A j \in 1..(i - 1) : SubSeq(s, j, j + Len(sub) - 1) # sub
    ELSE 0

\* template.render(**context): the text outside "{{ }}" as it is, each
\* expression replaced by str() of its value; or what transform makes of a
\* TemplateSyntaxError or an UndefinedError
RECURSIVE Render(_, _, _)
Render(objs, template, ctx) ==
    IF template = <<>> THEN Returned(<<>>)
    ELSE IF StartsWith(template, <<"{", "{">>)
    THEN LET inside == Drop(template, 2)
             close  == Find(inside, <<"}", "}">>)
             value  == Evaluate(objs, Strip(SubSeq(inside, 1, close - 1)), ctx)
             rest   == Render(objs, Drop(inside, close + 1), ctx)
         IN  IF close = 0 \/ value.kind # "return" \/ rest.kind # "return"
             THEN TransformationError
             ELSE Returned(PyText(View(objs, value.data)) \o rest.data)
    ELSE LET rest == Render(objs, Tail(template), ctx)
         IN  IF rest.kind # "return" THEN rest ELSE Returned(<<Head(template)>> \o rest.data)

\* what apply_mapping gives: its outcome, the objects as it leaves them (the
\* value of a transform is a new object) and the context it built
Applied(outcome, objs, ctx) == [outcome |-> outcome, objs |-> objs, context |-> ctx]

\* the value of a transform, a new object when it is a dict
AppliedStored(stored, ctx) == Applied(Returned(stored.cell), stored.objs, ctx)

\* transform after the render: result = self._coerce_type(result), or the
\* TransformationError the except clauses make of what render raised
Coerced(objs, rendered, ctx) ==
    IF rendered.kind = "return"
    THEN AppliedStored(Store(objs, coerce_type(rendered.data)), ctx)
    ELSE Applied(TransformationError, objs, ctx)

\* FieldTransformer.transform(expression, context): render, then _coerce_type
transform(objs, expression, ctx) == Coerced(objs, Render(objs, expression, ctx), ctx)

\* Mutant of StubValue: the stub value goes through _coerce_type
StubValue_Coerced(field_mapping) ==
    IF field_mapping.stub_value.kind = "str"
    THEN coerce_type(field_mapping.stub_value.s)
    ELSE field_mapping.stub_value

\* apply_mapping, `return field_mapping.stub_value`
StubValue(field_mapping) == field_mapping.stub_value

\* FieldTransformer.apply_mapping(v1_responses, field_mapping)
apply_mapping(objs, responses, field_mapping) ==
    IF field_mapping.source = STUB
    THEN Applied(Returned(StubValue(field_mapping)), objs, <<>>)
    ELSE IF field_mapping.source \notin DOMAIN responses
    THEN Applied(TransformationError, objs, <<>>)
    ELSE IF field_mapping.transform # <<>>
    THEN LET ctx == BuildContext(objs, responses, responses[field_mapping.source])
         IN  IF ctx.kind = "return" THEN transform(objs, field_mapping.transform, ctx.data)
             ELSE Applied(ctx, objs, <<>>)
    ELSE IF field_mapping.v1_path = <<>>
    THEN Applied(TransformationError, objs, <<>>)
    ELSE Applied(Returned(get_nested_value_in(objs, responses[field_mapping.source],
                                              field_mapping.v1_path)), objs, <<>>)

\* Mutant of ReraiseTransformationError: log and go on, whatever the source
ReraiseTransformationError_Never(field_mapping) == FALSE

\* build_response, `except TransformationError`: re-raise as
\* ResponseBuilderError unless the source is 'stub'
ReraiseTransformationError(field_mapping) == field_mapping.source # STUB

\* the for loop of build_response from position i on; acc holds the objects,
\* the address of v2_response and the history so far.  BuildFrom applies the
\* mapping, Applying goes on with what apply_mapping gave, Setting with what
\* _set_nested_value gave.
RECURSIVE BuildFrom(_, _, _, _), Applying(_, _, _, _, _), Setting(_, _, _, _, _, _)
BuildFrom(field_mappings, responses, i, acc) ==
    IF i > Len(field_mappings)
    THEN [acc EXCEPT !.result = Returned(ObjRef(acc.v2_response))]
    ELSE Applying(field_mappings, responses, i, acc,
                  apply_mapping(acc.objs, responses, field_mappings[i]))

Applying(field_mappings, responses, i, acc, applied) ==
    IF applied.outcome.kind = "TransformationError"
    THEN IF ReraiseTransformationError(field_mappings[i])
         THEN [acc EXCEPT !.result = ResponseBuilderError,
                          !.failed = @ \cup {i}]
         ELSE BuildFrom(field_mappings, responses, i + 1,
                        [acc EXCEPT !.failed = @ \cup {i}])
    \* `except Exception` wraps whatever else apply_mapping raised
    ELSE IF applied.outcome.kind # "return"
    THEN [acc EXCEPT !.result = ResponseBuilderError,
                     !.failed = @ \cup {i}]
    ELSE Setting(field_mappings, responses, i, acc, applied,
                 set_nested_value_in(applied.objs, acc.v2_response,
                                     field_mappings[i].v2_path, applied.outcome.data))

Setting(field_mappings, responses, i, acc, applied, set) ==
    IF set.kind = "return"
    THEN BuildFrom(field_mappings, responses, i + 1,
                   [acc EXCEPT !.objs = set.data,
                               !.written = @ \cup {i}])
    \* `except Exception` wraps whatever _set_nested_value raised
    ELSE [acc EXCEPT !.objs = applied.objs, !.result = ResponseBuilderError]

\* the document and the response set as the objects build_response is called
\* with: the stub values of the field mappings and the responses by call name
RECURSIVE StoreStubs(_, _, _), StoreResponses(_, _, _, _)
StoreStubs(objs, field_mappings, i) ==
    IF i > Len(field_mappings) THEN [objs |-> objs, field_mappings |-> field_mappings]
    ELSE LET stored == Store(objs, field_mappings[i].stub_value)
         IN  StoreStubs(stored.objs,
                        [field_mappings EXCEPT ![i].stub_value = stored.cell], i + 1)

StoreResponses(objs, responses, names, cells) ==
    IF names = {} THEN [objs |-> objs, v1_responses |-> cells]
    ELSE LET name   == CHOOSE n \in names : TRUE
             stored == Store(objs, responses[name])
         IN  StoreResponses(stored.objs, responses, names \ {name},
                            DictSet(cells, name, stored.cell))

Load(cfg, responses) ==
    LET stubs == StoreStubs(<<>>, cfg.field_mappings, 1)
        resps == StoreResponses(stubs.objs, responses, DOMAIN responses, <<>>)
    IN  [objs |-> resps.objs, v1_responses |-> resps.v1_responses,
         field_mappings |-> stubs.field_mappings]

\* V2ResponseBuilder.build_response(config, v1_responses): v2_response = {},
\* then the loop
build_response(mem) ==
    BuildFrom(mem.field_mappings, mem.v1_responses, 1,
              [objs |-> Append(mem.objs, <<>>), v2_response |-> Len(mem.objs) + 1,
               written |-> {}, failed |-> {}, result |-> NoResult])

-----------------------------------------------------------------------------
(* build_response on loaded documents and response sets *)

PathA == <<"a">>

PathAB == <<"a", ".", "b">>

PathB == <<"b">>

V2Paths == {PathA, PathAB, PathB}

\* "{{n}}": the key n of the source response
JinjaExpr == <<"{", "{", "n", "}", "}">>

\* "n" to a, ".n" to a.b, "n..k" to b
V1PathTo(v2_path) ==
    IF v2_path = PathA THEN <<"n">>
    ELSE IF v2_path = PathAB THEN <<".", "n">>
    ELSE <<"n", ".", ".", "k">>

\* stubs (the string "4" with a transform and a v1_path that are not to be
\* used, and {}), direct mappings, transforms, and a mapping with neither
\* v1_path nor transform
BuildMappings ==
    {FieldMapping(p, STUB, <<"n">>, JinjaExpr, StrVal(<<"4">>)) : p \in V2Paths}
    \cup {FieldMapping(p, STUB, <<>>, <<>>, EmptyDict) : p \in V2Paths}
    \cup {FieldMapping(p, src, V1PathTo(p), <<>>, NoValue) : p \in V2Paths, src \in {<<"p">>, <<"c">>}}
    \cup {FieldMapping(p, <<"p">>, <<>>, JinjaExpr, NoValue) : p \in V2Paths}
    \cup {FieldMapping(PathA, <<"p">>, <<>>, <<>>, NoValue)}

BuildCalls ==
    << V1ApiCall(<<"p">>, <<"/", "p">>, "GET", <<>>),
       V1ApiCall(<<"c">>, <<"/", "c">>, "GET", <<>>) >>

\* the documents the loader accepts
BuildDocs ==
    {d \in {MappingConfig(BuildCalls, maps) : maps \in SeqsUpTo(BuildMappings, MaxMappings)} :
        load_config(d).kind = "return"}

ResponseSets ==
    { [k \in {<<"p">>, <<"c">>} |->
          IF k = <<"p">> THEN Dict([n \in {<<"n">>} |-> StrVal(<<"v">>)])
          ELSE Dict([n \in {<<"n">>} |-> EmptyDict])],
      [k \in {<<"p">>, <<"c">>} |->
          IF k = <<"p">> THEN EmptyDict
          ELSE Dict([n \in {<<"n">>} |-> StrVal(<<"w">>)])],
      [k \in {<<"p">>} |-> Dict([n \in {<<"n">>} |-> StrVal(<<"v">>)])] }

BuildInit ==
    /\ config \in BuildDocs
    /\ v1_responses \in ResponseSets
    /\ pc = "build"
    /\ v2_params = <<>>
    /\ result = NoResult
    /\ memory = Load(config, v1_responses)
    /\ runs = <<>>
    /\ v2_response = <<>>
    /\ written = {}
    /\ failed = {}
    /\ nested_in = NoValue
    /\ read_back = NoResult
    /\ NoHistory
    /\ LoaderIdle
    /\ RequestIdle
    /\ TransformIdle
    /\ ServerIdle

\* what a run of build_response gave its caller: the output as it is when the
\* run returns, or the error
Outcome(built) ==
    IF built.result.kind = "return"
    THEN Returned(View(built.objs, built.result.data).items)
    ELSE built.result

\* build_response runs to its end without suspending, on the document and the
\* response set as the runs before left them
BuildResponse ==
    /\ pc \in {"build", "built", "build_failed"}
    /\ Len(runs) < MaxRuns
    /\ \E built \in {build_response(memory)} :
           /\ result' = Outcome(built)
           /\ v2_response' = View(built.objs, ObjRef(built.v2_response)).items
           /\ written' = built.written
           /\ failed' = built.failed
           /\ memory' = [memory EXCEPT !.objs = built.objs]
           /\ runs' = Append(runs, Outcome(built))
           /\ pc' = IF built.result.kind = "return" THEN "built" ELSE "build_failed"
    /\ UNCHANGED <<config, v2_params, v1_responses, histVars, loadVars, nested_in, read_back,
                   reqVars, xformVars, serverVars>>

BuildNext == BuildResponse

BuildSpec == BuildInit /\ [][BuildNext]_vars

\* C8: assembly is all-or-nothing.  build_response either returns an output
\* for which every field mapping was evaluated and written, or raises
\* ResponseBuilderError; whenever the evaluation of a field whose source is not
\* 'stub' failed, it raised, and no output is returned with a field left out.
AllOrNothing ==
    pc \in {"built", "build_failed"} =>
        /\ \/ /\ result.kind = "return"
              /\ written = DOMAIN config.field_mappings
              /\ failed = {}
              /\ result.data = v2_response
           \/ result = ResponseBuilderError
        /\ (\E i \in failed : config.field_mappings[i].source # STUB) =>
              result = ResponseBuilderError

\* C8 witness: the second mapping's transform failed after the first field
\* was written, and the response was aborted
AllOrNothingWitness ==
    /\ pc = "build_failed"
    /\ written = {1}
    /\ failed = {2}
    /\ config.field_mappings[2].transform # <<>>
    /\ config.field_mappings[2].source \in DOMAIN v1_responses

PathKeys(path) == SelectSeq(Split(path), NonEmpty)

IsProperPrefix(p, q) == Len(p) < Len(q) /\ SubSeq(q, 1, Len(p)) = p

\* the mapping gives its path a value that is no dict (when it gives one)
WritesLeaf(field_mapping, responses) ==
    LET mem     == Load(MappingConfig(<<>>, <<field_mapping>>), responses)
        applied == apply_mapping(mem.objs, mem.v1_responses, mem.field_mappings[1])
    IN  applied.outcome.kind = "return" => applied.outcome.data.kind # "dict"

\* one mapping makes a path a leaf, the other targets a path below it
LeafContainerDisagreement(cfg, responses) ==
    \E i, j \in DOMAIN cfg.field_mappings :
        /\ i # j
        /\ WritesLeaf(cfg.field_mappings[i], responses)
        /\ IsProperPrefix(PathKeys(cfg.field_mappings[i].v2_path),
                          PathKeys(cfg.field_mappings[j].v2_path))

\* C9: whenever two field mappings of the document disagree about whether a
\* path is a leaf or a container (one writes a leaf at p, the other targets
\* p.q, in either order), assembly fails with ResponseBuilderError.
DisagreementConflicts ==
    (pc \in {"built", "build_failed"} /\ LeafContainerDisagreement(config, v1_responses)) =>
        result = ResponseBuilderError

LastMapping == config.field_mappings[Len(config.field_mappings)]

\* the stub mappings of the document, each with the mapping as build_response
\* holds it and applied to the objects as they are now
StubsApplied ==
    { [field_mapping |-> config.field_mappings[i],
       held |-> memory.field_mappings[i],
       applied |-> apply_mapping(memory.objs, memory.v1_responses, memory.field_mappings[i])] :
          i \in {j \in DOMAIN config.field_mappings : config.field_mappings[j].source = STUB} }

\* C12: for every field mapping whose source is 'stub', the value written to
\* the output at its v2_path is its stub_value exactly: applying the mapping
\* returns the stub value itself and touches nothing, whatever the response
\* set holds and whatever transform or v1_path the mapping carries (on the
\* document as loaded that is the stub_value of the document), and once
\* build_response has written it, the mapping being the last one, the output
\* holds the document's stub_value at v2_path.
StubWrittenExactly ==
    pc \in {"build", "built", "build_failed"} =>
        /\ \A st \in StubsApplied :
              /\ st.applied.outcome = Returned(st.held.stub_value)
              /\ st.applied.objs = memory.objs
              /\ runs = <<>> =>
                    View(st.applied.objs, st.applied.outcome.data) = st.field_mapping.stub_value
        /\ (pc = "built" /\ config.field_mappings # <<>> /\ LastMapping.source = STUB) =>
              get_nested_value(Dict(v2_response), LastMapping.v2_path) = LastMapping.stub_value

\* C12 witness: the stub "4", carrying a transform, was written as the string
\* "4" with a response set that lacks the call c
StubWrittenExactlyWitness ==
    /\ pc = "built"
    /\ config.field_mappings # <<>>
    /\ LastMapping.source = STUB
    /\ LastMapping.transform # <<>>
    /\ LastMapping.stub_value = StrVal(<<"4">>)
    /\ <<"c">> \notin DOMAIN v1_responses
    /\ get_nested_value(Dict(v2_response), LastMapping.v2_path) = StrVal(<<"4">>)

-----------------------------------------------------------------------------
(* _set_nested_value and get_nested_value on their own *)

PathChars == {".", "a", "b"}

DotPaths == SeqsUpTo(PathChars, MaxPathLen)

\* {}, {a: "s"}, {a: None}, {a: {}}, {a: {b: "s"}}
ObjPool ==
    { <<>>,
      [k \in {<<"a">>} |-> StrVal(<<"s">>)],
      [k \in {<<"a">>} |-> NoValue],
      [k \in {<<"a">>} |-> EmptyDict],
      [k \in {<<"a">>} |-> Dict([n \in {<<"b">>} |-> StrVal(<<"s">>)])] }

WrittenValues == {StrVal(<<"v">>), NoValue, EmptyDict}

NestedInit ==
    /\ nested_in \in [obj : ObjPool, path : DotPaths, value : WrittenValues]
    /\ v2_response = nested_in.obj
    /\ pc = "set"
    /\ config = NoValue
    /\ v2_params = <<>>
    /\ v1_responses = <<>>
    /\ result = NoResult
    /\ written = {}
    /\ failed = {}
    /\ read_back = NoResult
    /\ memory = NoValue
    /\ runs = <<>>
    /\ NoHistory
    /\ LoaderIdle
    /\ RequestIdle
    /\ TransformIdle
    /\ ServerIdle

\* _set_nested_value(obj, path, value) changes obj in place or raises
SetNestedValue ==
    /\ pc = "set"
    /\ LET r == set_nested_value(v2_response, nested_in.path, nested_in.value)
       IN  /\ result' = IF r.kind = "return" THEN Returned(NoValue) ELSE r
           /\ v2_response' = IF r.kind = "return" THEN r.data ELSE v2_response
    /\ pc' = "get"
    /\ UNCHANGED <<config, v2_params, v1_responses, histVars, loadVars,
                   written, failed, nested_in, read_back, memory, runs, reqVars, xformVars, serverVars>>

\* get_nested_value(obj, path) on the dict as the write left it
GetNestedValue ==
    /\ pc = "get"
    /\ read_back' = Returned(get_nested_value(Dict(v2_response), nested_in.path))
    /\ pc' = "got"
    /\ UNCHANGED <<config, v2_params, v1_responses, histVars, loadVars,
                   v2_response, written, failed, nested_in, result, memory, runs,
                   reqVars, xformVars, serverVars>>

NestedNext == SetNestedValue \/ GetNestedValue

NestedSpec == NestedInit /\ [][NestedNext]_vars

\* {k1: {k2: .. {kn: value}}}
RECURSIVE NestedDict(_, _)
NestedDict(keys, value) ==
    IF Len(keys) = 1 THEN [k \in {keys[1]} |-> value]
    ELSE [k \in {Head(keys)} |-> Dict(NestedDict(Tail(keys), value))]

\* the value of obj reached through the keys, when every key on the way is
\* present in a dict
RECURSIVE Reaches(_, _)
Reaches(value, keys) ==
    IF keys = <<>> THEN [found |-> TRUE, value |-> value]
    ELSE IF value.kind = "dict" /\ Head(keys) \in DOMAIN value.items
         THEN Reaches(value.items[Head(keys)], Tail(keys))
         ELSE [found |-> FALSE, value |-> NoValue]

\* some segment of the path before the last one holds a value that is no dict
IntermediateHoldsNonMapping(obj, path) ==
    \E n \in 1..(Len(PathKeys(path)) - 1) :
        LET at == Reaches(Dict(obj), SubSeq(PathKeys(path), 1, n))
        IN  at.found /\ at.value.kind # "dict"

\* C10: dot-path round trip.  Writing value v at a dot path (one with a
\* segment) into the empty dict creates the intermediate segments as nested
\* dicts, ignoring a leading dot, and reading the path back yields v; writing
\* to a path whose intermediate segment holds a non-dict value raises
\* ResponseBuilderError and leaves the dict as it was.
DotPathRoundTrip ==
    /\ (pc = "got" /\ nested_in.obj = <<>> /\ PathKeys(nested_in.path) # <<>>) =>
          /\ result = Returned(NoValue)
          /\ v2_response = NestedDict(PathKeys(nested_in.path), nested_in.value)
          /\ read_back = Returned(nested_in.value)
    /\ (pc \in {"get", "got"}
            /\ IntermediateHoldsNonMapping(nested_in.obj, nested_in.path)) =>
          /\ result = ResponseBuilderError
          /\ v2_response = nested_in.obj

\* C10 witness: a two-segment path with a leading dot was written into the
\* empty dict and read back
DotPathRoundTripWitness ==
    /\ pc = "got"
    /\ nested_in.obj = <<>>
    /\ Len(PathKeys(nested_in.path)) = 2
    /\ Head(nested_in.path) = "."
    /\ nested_in.value = StrVal(<<"v">>)
    /\ read_back = Returned(StrVal(<<"v">>))

-----------------------------------------------------------------------------
(* _build_query_params and _build_body on their own *)

\* the for loop of _build_query_params and of _build_body over a list of
\* ParamMapping: `if v2_value is not None: d[param_map.v1_param] = v2_value`
RECURSIVE CollectParams(_, _, _)
CollectParams(d, param_maps, params) ==
    IF param_maps = <<>> THEN d
    ELSE LET param_map == Head(param_maps)
             v2_value  == DictGet(params, param_map.v2_param)
         IN  CollectParams(IF v2_value # NoValue
                           THEN DictSet(d, param_map.v1_param, v2_value) ELSE d,
                           Tail(param_maps), params)

\* Mutant of build_query_params: only the mappings whose own location is
\* "query" are looked up
build_query_params_OwnLocationOnly(v1_call, params) ==
    IF "query" \in DOMAIN v1_call.params
    THEN LET IsQuery(m) == m.location = "query"
         IN  Dict(CollectParams(<<>>, SelectSeq(v1_call.params["query"], IsQuery), params))
    ELSE EmptyDict

\* V1Orchestrator._build_query_params
build_query_params(v1_call, params) ==
    IF "query" \in DOMAIN v1_call.params
    THEN Dict(CollectParams(<<>>, v1_call.params["query"], params))
    ELSE EmptyDict

\* Mutant of build_body: an empty object when no body list is declared
build_body_EmptyObject(v1_call, params) ==
    IF "body" \in DOMAIN v1_call.params
    THEN Dict(CollectParams(<<>>, v1_call.params["body"], params))
    ELSE EmptyDict

\* V1Orchestrator._build_body: None when the call has no params or no 'body' list
build_body(v1_call, params) ==
    IF "body" \in DOMAIN v1_call.params
    THEN Dict(CollectParams(<<>>, v1_call.params["body"], params))
    ELSE NoValue

ParamMapPool ==
    {ParamMapping(v2, v1, loc) :
        v2 \in {<<"x">>, <<"y">>}, v1 \in {<<"q">>, <<"r">>}, loc \in {"path", "query", "body"}}

ParamMapLists == SeqsUpTo(ParamMapPool, MaxParamMaps)

\* a call with params = None, with a 'query' list, with a 'body' list, or both
ParamCalls ==
    {V1ApiCall(<<"u">>, <<"/", "c">>, "POST", <<>>)}
    \cup {V1ApiCall(<<"u">>, <<"/", "c">>, "POST", [k \in {loc} |-> maps]) :
            loc \in {"query", "body"}, maps \in ParamMapLists}
    \cup {V1ApiCall(<<"u">>, <<"/", "c">>, "POST",
                    [k \in {"query", "body"} |-> IF k = "query" THEN <<qm>> ELSE <<bm>>]) :
            qm \in ParamMapPool, bm \in ParamMapPool}

\* the unified bag: x is absent, null (a JSON body {"x": null}) or "7";
\* y is absent or 5
ParamCallBags ==
    LET absent == [kind |-> "absent"]
        xs == {absent, NoValue, StrVal(<<"7">>)}
        ys == {absent, IntVal(5)}
    IN  {[k \in {n \in {<<"x">>, <<"y">>} : (IF n = <<"x">> THEN x ELSE y) # absent}
             |-> IF k = <<"x">> THEN x ELSE y] : x \in xs, y \in ys}

ParamsInit ==
    /\ config \in {MappingConfig(<<c>>, StubMappings) : c \in ParamCalls}
    /\ v2_params \in ParamCallBags
    /\ pc = "params"
    /\ v1_responses = <<>>
    /\ result = NoResult
    /\ NoHistory
    /\ LoaderIdle
    /\ BuilderIdle
    /\ RequestIdle
    /\ TransformIdle
    /\ ServerIdle

\* execute_v1_call: query_params = self._build_query_params(...);
\* body = self._build_body(...)
BuildRequestParams ==
    /\ pc = "params"
    /\ pc' = "params_done"
    /\ result' = Returned([query_params |-> build_query_params(config.v1_calls[1], v2_params),
                           body         |-> build_body(config.v1_calls[1], v2_params)])
    /\ UNCHANGED <<config, v2_params, v1_responses, histVars, loadVars, buildVars,
                   reqVars, xformVars, serverVars>>

ParamsNext == BuildRequestParams

ParamsSpec == ParamsInit /\ [][ParamsNext]_vars

DeclaredMaps(v1_call, location) ==
    IF location \in DOMAIN v1_call.params THEN v1_call.params[location] ELSE <<>>

\* the key is in the bag, whatever its value
InBag(params, v2_param) == v2_param \in DOMAIN params

\* the key is in the bag with a value that is not null
InBagNonNull(params, v2_param) == InBag(params, v2_param) /\ params[v2_param] # NoValue

\* what a list of mappings gives: each v1_param of a mapping whose v2_param is
\* in the bag with a non-null value, with the value of the last such mapping
LastNonNull(maps, params) ==
    LET Kept == {i \in DOMAIN maps : InBagNonNull(params, maps[i].v2_param)}
        Last(k) == CHOOSE i \in Kept :
                      /\ maps[i].v1_param = k
                      /\ \A j \in Kept : maps[j].v1_param = k => j <= i
    IN  [k \in {maps[i].v1_param : i \in Kept} |-> params[maps[Last(k)].v2_param]]

\* C17 as stated: for each mapping of the call's query list, the query holds
\* v1_param -> v2_params[v2_param] if and only if v2_param is in the bag,
\* whatever the mapping's location; building the query never fails.
QueryIffInBag ==
    pc = "params_done" =>
        /\ result.kind = "return"
        /\ LET maps  == DeclaredMaps(config.v1_calls[1], "query")
               query == result.data.query_params.items
           IN  \A i \in DOMAIN maps :
                   InBag(v2_params, maps[i].v2_param)
                   <=> /\ maps[i].v1_param \in DOMAIN query
                       /\ query[maps[i].v1_param] = DictGet(v2_params, maps[i].v2_param)

\* C17 amended: the query holds exactly the v1_param of the query-list mappings
\* whose v2_param is in the bag with a non-null value, each with the value of
\* the last such mapping declared for it, whatever the mappings' locations; a
\* parameter that is absent or null is left out and building never fails.
QueryFromNonNull ==
    pc = "params_done" =>
        /\ result.kind = "return"
        /\ result.data.query_params =
              Dict(LastNonNull(DeclaredMaps(config.v1_calls[1], "query"), v2_params))

\* C17 witness: a query-list mapping whose own location is "path" was looked
\* up in the bag, and a mapping of an absent parameter was left out
QueryFromNonNullWitness ==
    /\ pc = "params_done"
    /\ LET maps == DeclaredMaps(config.v1_calls[1], "query")
       IN  /\ Len(maps) = 2
           /\ maps[1].location = "path"
           /\ maps[1].v2_param = <<"x">>
           /\ maps[2].v2_param = <<"y">>
           /\ maps[1].v1_param # maps[2].v1_param
    /\ v2_params = [k \in {<<"x">>} |-> StrVal(<<"7">>)]
    /\ DOMAIN result.data.query_params.items = {config.v1_calls[1].params["query"][1].v1_param}

\* C18 as stated: no body at all when the call declares no body list, and
\* otherwise an object holding v1_param -> value for exactly the declared body
\* mappings whose v2_param is in the bag.
BodyIffInBag ==
    pc = "params_done" =>
        LET v1_call == config.v1_calls[1]
            maps    == DeclaredMaps(v1_call, "body")
            body    == result.data.body
        IN  IF "body" \notin DOMAIN v1_call.params THEN body = NoValue
            ELSE /\ body.kind = "dict"
                 /\ DOMAIN body.items =
                       {maps[i].v1_param : i \in {j \in DOMAIN maps : InBag(v2_params, maps[j].v2_param)}}
                 /\ \A i \in DOMAIN maps :
                       InBag(v2_params, maps[i].v2_param) =>
                           body.items[maps[i].v1_param] = v2_params[maps[i].v2_param]

\* C18 amended: no body at all (None, not an empty object) when the call
\* declares no body list, and otherwise an object (empty for an empty list)
\* holding exactly the v1_param of the body mappings whose v2_param is in the
\* bag with a non-null value, each with the value of the last such mapping.
BodyFromNonNull ==
    pc = "params_done" =>
        LET v1_call == config.v1_calls[1]
        IN  IF "body" \notin DOMAIN v1_call.params THEN result.data.body = NoValue
            ELSE result.data.body = Dict(LastNonNull(v1_call.params["body"], v2_params))

\* C18 witness: of two declared body mappings one parameter was in the bag
BodyFromNonNullWitness ==
    /\ pc = "params_done"
    /\ "body" \in DOMAIN config.v1_calls[1].params
    /\ Len(config.v1_calls[1].params["body"]) = 2
    /\ DOMAIN v2_params = {<<"y">>}
    /\ Cardinality(DOMAIN result.data.body.items) = 1

-----------------------------------------------------------------------------
(* _coerce_type on its own *)

CoerceChars == {"4", ".", "-", "e", " ", "[", "]"}

\* "42", "3.14", "true", "False", "hello", '{"x":1}', '{"x": [1, 2.5]}', "{x}"
CoerceExamples ==
    { <<"4", "2">>, <<"3", ".", "1", "4">>, <<"t", "r", "u", "e">>,
      <<"F", "a", "l", "s", "e">>, <<"h", "e", "l", "l", "o">>,
      <<"{", "\"", "x", "\"", ":", "1", "}">>,
      <<"{", "\"", "x", "\"", ":", " ", "[", "1", ",", " ", "2", ".", "5", "]", "}">>,
      <<"{", "x", "}">> }

CoerceStrings == SeqsUpTo(CoerceChars, MaxCoerceLen) \cup CoerceExamples

CoerceInit ==
    /\ xform_in \in {[value |-> s] : s \in CoerceStrings}
    /\ context = <<>>
    /\ pc = "coerce"
    /\ config = NoValue
    /\ v2_params = <<>>
    /\ v1_responses = <<>>
    /\ result = NoResult
    /\ NoHistory
    /\ LoaderIdle
    /\ BuilderIdle
    /\ RequestIdle
    /\ ServerIdle

\* result = self._coerce_type(result)
CoerceType ==
    /\ pc = "coerce"
    /\ pc' = "coerced"
    /\ result' = Returned(coerce_type(xform_in.value))
    /\ UNCHANGED <<config, v2_params, v1_responses, histVars, loadVars, buildVars,
                   reqVars, xformVars, serverVars>>

CoerceNext == CoerceType

CoerceSpec == CoerceInit /\ [][CoerceNext]_vars

\* the attempts in their order: whether each is made and what it gives
CoercionAttempts(v) ==
    << [made |-> v # <<>> /\ Head(v) \in {"{", "["}, parse |-> json_loads(v)],
       [made |-> ~Contains(v, <<".">>),             parse |-> py_int(v)],
       [made |-> TRUE,                              parse |-> py_float(v)],
       [made |-> TRUE,
        parse |-> IF Lower(v) \in TrueFalse
                  THEN Parsed(BoolVal(Lower(v) = <<"t", "r", "u", "e">>), <<>>)
                  ELSE ParseFailed] >>

\* C15: the coercion of a rendered string is the first of the attempts, in the
\* fixed order JSON (made when the trimmed string starts with { or [), integer
\* (made when it holds no '.'), float, boolean (true/false in any case), that
\* succeeds, and the trimmed string itself when none does; "42" gives the
\* integer 42, "3.14" a float, "true" the boolean true, "hello" the string and
\* '{"x":1}' the object {x: 1}.
CoercionOrder ==
    pc = "coerced" =>
        LET v        == Strip(xform_in.value)
            attempts == CoercionAttempts(v)
            Succeeds(i) == attempts[i].made /\ attempts[i].parse.ok
        IN  /\ \A i \in 1..4 :
                  (Succeeds(i) /\ \A j \in 1..(i - 1) : ~Succeeds(j)) =>
                      result = Returned(attempts[i].parse.value)
            /\ (\A i \in 1..4 : ~Succeeds(i)) => result = Returned(StrVal(v))
            /\ xform_in.value = <<"4", "2">> => result = Returned(IntVal(42))
            /\ xform_in.value = <<"3", ".", "1", "4">> => result = Returned(FloatVal(314, -2))
            /\ xform_in.value = <<"t", "r", "u", "e">> => result = Returned(BoolVal(TRUE))
            /\ xform_in.value = <<"h", "e", "l", "l", "o">> =>
                  result = Returned(StrVal(<<"h", "e", "l", "l", "o">>))
            /\ xform_in.value = <<"{", "\"", "x", "\"", ":", "1", "}">> =>
                  result = Returned(Dict([k \in {<<"x">>} |-> IntVal(1)]))

\* C15 witness: a string without '.' that is no integer was parsed as a float
\* after the integer parse failed
CoercionOrderWitness ==
    /\ pc = "coerced"
    /\ xform_in.value = <<"4", "e", "4">>
    /\ result = Returned(FloatVal(4, 4))

-----------------------------------------------------------------------------
(* build_response run again on the same document and response set *)

PathX == <<"x">>

\* x from c's n.b, a from c's n, a.b from the stub "4", a.b from p's n, and a
\* from the stub {}
RerunMappings ==
    { FieldMapping(PathX, <<"c">>, <<"n", ".", "b">>, <<>>, NoValue),
      FieldMapping(PathA, <<"c">>, <<"n">>, <<>>, NoValue),
      FieldMapping(PathAB, STUB, <<>>, <<>>, StrVal(<<"4">>)),
      FieldMapping(PathAB, <<"p">>, <<"n">>, <<>>, NoValue),
      FieldMapping(PathA, STUB, <<>>, <<>>, EmptyDict) }

\* the documents the loader accepts
RerunDocs ==
    {d \in {MappingConfig(BuildCalls, maps) : maps \in SeqsUpTo(RerunMappings, MaxRerunMappings)} :
        load_config(d).kind = "return"}

\* {p: {n: "v"}, c: {n: {}}} and {p: {}, c: {n: "w"}}
RerunResponseSets ==
    {rs \in ResponseSets : DOMAIN rs = {<<"p">>, <<"c">>}}

RerunInit ==
    /\ config \in RerunDocs
    /\ v1_responses \in RerunResponseSets
    /\ pc = "build"
    /\ v2_params = <<>>
    /\ result = NoResult
    /\ memory = Load(config, v1_responses)
    /\ runs = <<>>
    /\ v2_response = <<>>
    /\ written = {}
    /\ failed = {}
    /\ nested_in = NoValue
    /\ read_back = NoResult
    /\ NoHistory
    /\ LoaderIdle
    /\ RequestIdle
    /\ TransformIdle
    /\ ServerIdle

RerunSpec == RerunInit /\ [][BuildNext]_vars

\* C11: assembly is idempotent.  Two runs of build_response in a row on the
\* same document and response set give the same outcome: the same output, or
\* both fail.
Idempotent ==
    Len(runs) >= 2 => runs[2] = runs[1]

-----------------------------------------------------------------------------
(* apply_mapping on one field mapping, and the write of its value *)

GET_CUSTOMER == <<"g", "e", "t", "_", "c", "u", "s", "t", "o", "m", "e", "r">>

FIRST_NAME == <<"f", "i", "r", "s", "t", "_", "n", "a", "m", "e">>

LAST_NAME == <<"l", "a", "s", "t", "_", "n", "a", "m", "e">>

\* "{{ get_customer.first_name }} {{ get_customer.last_name }}"
JoinNames ==
    <<"{", "{", " ">> \o GET_CUSTOMER \o <<".">> \o FIRST_NAME \o <<" ", "}", "}">>
    \o <<" ">>
    \o <<"{", "{", " ">> \o GET_CUSTOMER \o <<".">> \o LAST_NAME \o <<" ", "}", "}">>

NameValueChars == {" ", "4", "[", "]"}

NameStrings == SeqsUpTo(NameValueChars, MaxNameLen)

\* the customer response with two string fields, and the joining transform
JoinInputs ==
    { [responses |-> [c \in {GET_CUSTOMER} |->
                         Dict([k \in {FIRST_NAME, LAST_NAME} |->
                                  IF k = FIRST_NAME THEN StrVal(x) ELSE StrVal(y)])],
       field_mapping |-> FieldMapping(PathA, GET_CUSTOMER, <<>>, JoinNames, NoValue)] :
          x \in NameStrings, y \in NameStrings }

\* responses of at most one key, among them keys that are call names or
\* 'source', and responses that are no dict
ContextResponses ==
    { Dict([k \in {key} |-> val]) :
          key \in {<<"n">>, <<"c">>, SOURCE}, val \in {StrVal(<<"v">>), EmptyDict} }
    \cup {EmptyDict, NoValue, ListVal(<<>>), IntVal(4)}

ContextCallNames == {{<<"p">>, <<"c">>}, {<<"p">>, SOURCE}}

ContextTransforms ==
    { <<"{", "{", "n", "}", "}">>,
      <<"{", "{", " ", "c", ".", "n", " ", "}", "}">>,
      <<"{", "{", "s", "o", "u", "r", "c", "e", ".", "n", "}", "}">>,
      <<"{", "{", "c", "}", "}", "-", "{", "{", "p", "}", "}">> }

ContextInputs ==
    { [responses |-> responses,
       field_mapping |-> FieldMapping(PathA, <<"p">>, <<>>, expression, NoValue)] :
          responses \in UNION {[names -> ContextResponses] : names \in ContextCallNames},
          expression \in ContextTransforms }

DirectPaths == SeqsUpTo({".", "n", "k"}, MaxV1PathLen) \ {<<>>}

\* {}, {n: 'v'}, {n: None}, {n: {}}, {n: {k: 'v'}}, {n: {k: {}}}, and
\* responses that are no dict
DirectResponses ==
    { EmptyDict,
      Dict([k \in {<<"n">>} |-> StrVal(<<"v">>)]),
      Dict([k \in {<<"n">>} |-> NoValue]),
      Dict([k \in {<<"n">>} |-> EmptyDict]),
      Dict([k \in {<<"n">>} |-> Dict([j \in {<<"k">>} |-> StrVal(<<"v">>)])]),
      Dict([k \in {<<"n">>} |-> Dict([j \in {<<"k">>} |-> EmptyDict])]),
      StrVal(<<"v">>), ListVal(<<>>), NoValue }

DirectInputs ==
    { [responses |-> [c \in {<<"c">>} |-> response],
       field_mapping |-> FieldMapping(v2_path, <<"c">>, v1_path, <<>>, NoValue)] :
          response \in DirectResponses, v1_path \in DirectPaths, v2_path \in {PathA, PathAB} }

TransformInit ==
    /\ xform_in \in JoinInputs \cup ContextInputs \cup DirectInputs
    /\ context = <<>>
    /\ memory = Load(MappingConfig(<<>>, <<xform_in.field_mapping>>), xform_in.responses)
    /\ pc = "apply"
    /\ config = NoValue
    /\ v2_params = <<>>
    /\ v1_responses = xform_in.responses
    /\ result = NoResult
    /\ runs = <<>>
    /\ v2_response = <<>>
    /\ written = {}
    /\ failed = {}
    /\ nested_in = NoValue
    /\ read_back = NoResult
    /\ NoHistory
    /\ LoaderIdle
    /\ RequestIdle
    /\ ServerIdle

\* value = self.transformer.apply_mapping(v1_responses, field_mapping)
ApplyMapping ==
    /\ pc = "apply"
    /\ \E applied \in {apply_mapping(memory.objs, memory.v1_responses,
                                       memory.field_mappings[1])} :
           /\ result' = IF applied.outcome.kind = "return"
                        THEN Returned(View(applied.objs, applied.outcome.data))
                        ELSE applied.outcome
           /\ context' = [k \in DOMAIN applied.context |-> View(applied.objs, applied.context[k])]
           /\ memory' = [memory EXCEPT !.objs = applied.objs]
           /\ pc' = IF applied.outcome.kind = "return" THEN "applied" ELSE "apply_failed"
    /\ UNCHANGED <<config, v2_params, v1_responses, histVars, loadVars, v2_response, written,
                   failed, nested_in, read_back, runs, reqVars, xform_in, serverVars>>

\* self._set_nested_value(v2_response, field_mapping.v2_path, value), on the
\* v2_response = {} of build_response
WriteField ==
    /\ pc = "applied"
    /\ LET set == set_nested_value(<<>>, xform_in.field_mapping.v2_path, result.data)
       IN  /\ v2_response' = IF set.kind = "return" THEN set.data ELSE v2_response
           /\ written' = IF set.kind = "return" THEN {1} ELSE {}
           /\ pc' = IF set.kind = "return" THEN "field_written" ELSE "write_failed"
    /\ UNCHANGED <<config, v2_params, v1_responses, histVars, loadVars, failed, nested_in,
                   read_back, memory, runs, result, reqVars, xformVars, serverVars>>

TransformNext == ApplyMapping \/ WriteField

TransformSpec == TransformInit /\ [][TransformNext]_vars

SourceResponse == xform_in.responses[xform_in.field_mapping.source]

SourceKeys == IF SourceResponse.kind = "dict" THEN DOMAIN SourceResponse.items ELSE {}

\* apply_mapping got as far as the transform: the source is in the response set
HasTransform ==
    /\ xform_in.field_mapping.source # STUB
    /\ xform_in.field_mapping.source \in DOMAIN xform_in.responses
    /\ xform_in.field_mapping.transform # <<>>

\* C13 as stated: in the context of a transform every call name resolves to
\* that call's response, every top-level key of the source response to its
\* value, and `source` to the source response.
ContextResolvesAll ==
    (pc # "apply" /\ HasTransform /\ context # <<>>) =>
        /\ \A name \in DOMAIN xform_in.responses : context[name] = xform_in.responses[name]
        /\ \A key \in SourceKeys : context[key] = SourceResponse.items[key]
        /\ context[SOURCE] = SourceResponse

\* C13, amended: the context is built whenever the source response is a dict;
\* in it `source` resolves to the source response, every top-level key of the
\* source response other than `source` to its value, and every call name that
\* is neither `source` nor a top-level key of the source response to that
\* call's response; it holds no other name.
ContextResolves ==
    (pc # "apply" /\ HasTransform) =>
        /\ SourceResponse.kind = "dict" => context # <<>>
        /\ context # <<>> =>
              /\ context[SOURCE] = SourceResponse
              /\ \A key \in SourceKeys \ {SOURCE} : context[key] = SourceResponse.items[key]
              /\ \A name \in DOMAIN xform_in.responses \ (SourceKeys \cup {SOURCE}) :
                    context[name] = xform_in.responses[name]
              /\ DOMAIN context = DOMAIN xform_in.responses \cup SourceKeys \cup {SOURCE}

\* C13 witness: the source response p has a key c, and in the context the
\* name c is that key's value, not the response of the call c
ContextResolvesWitness ==
    /\ pc = "applied"
    /\ HasTransform
    /\ <<"c">> \in SourceKeys
    /\ <<"c">> \in DOMAIN xform_in.responses
    /\ context[<<"c">>] = SourceResponse.items[<<"c">>]
    /\ context[<<"c">>] # xform_in.responses[<<"c">>]
    /\ context[<<"p">>] = SourceResponse

\* apply_mapping got as far as the direct read: the source is in the response
\* set and the mapping has a v1_path and no transform
IsDirect ==
    /\ xform_in.field_mapping.source # STUB
    /\ xform_in.field_mapping.source \in DOMAIN xform_in.responses
    /\ xform_in.field_mapping.transform = <<>>
    /\ xform_in.field_mapping.v1_path # <<>>

\* the source response followed along the non-empty segments of v1_path
DirectTarget == Reaches(SourceResponse, PathKeys(xform_in.field_mapping.v1_path))

\* C14: a direct mapping never fails because upstream data is missing.  For a
\* source that is in the response set apply_mapping returns; what it returns
\* is the value found along the non-empty segments of v1_path (a leading dot
\* and empty segments are skipped), and null whenever a key on the way is
\* missing or the way leads through a value that is no dict; the null is then
\* written to the output at v2_path.
MissingYieldsNull ==
    (pc # "apply" /\ IsDirect) =>
        /\ result.kind = "return"
        /\ result.data = IF DirectTarget.found THEN DirectTarget.value ELSE NoValue
        /\ pc # "write_failed"
        /\ (pc = "field_written" /\ result.data = NoValue) =>
              v2_response = NestedDict(PathKeys(xform_in.field_mapping.v2_path), NoValue)

\* C14 witness: the path ".n.k" was read from {n: 'v'}, where n holds a
\* value that is no dict, and None was written at a.b
MissingYieldsNullWitness ==
    /\ pc = "field_written"
    /\ IsDirect
    /\ xform_in.field_mapping.v1_path = <<".", "n", ".", "k">>
    /\ SourceResponse = Dict([k \in {<<"n">>} |-> StrVal(<<"v">>)])
    /\ xform_in.field_mapping.v2_path = PathAB
    /\ result = Returned(NoValue)
    /\ v2_response = [a \in {<<"a">>} |-> Dict([b \in {<<"b">>} |-> NoValue])]

IsJoin == xform_in.field_mapping.transform = JoinNames

FirstName == xform_in.responses[GET_CUSTOMER].items[FIRST_NAME].s

LastName == xform_in.responses[GET_CUSTOMER].items[LAST_NAME].s

Joined == FirstName \o <<" ">> \o LastName

\* C16 as stated: the transform that joins get_customer.first_name and
\* get_customer.last_name with a space yields first_name, one space,
\* last_name, for every pair of string values.
JoinsWithOneSpace ==
    (pc # "apply" /\ IsJoin) => result = Returned(StrVal(Joined))

\* the joined text is a JSON array or object
IsJsonDocument(s) == s # <<>> /\ s[1] \in {"{", "["} /\ json_loads(s).ok

\* C16, amended: the transform yields first_name, one space, last_name for
\* every pair of non-empty strings of which first_name does not start and
\* last_name does not end with white space and whose join is not a JSON array
\* or object.
JoinsPlainNames ==
    (/\ pc # "apply"
     /\ IsJoin
     /\ FirstName # <<>>
     /\ LastName # <<>>
     /\ FirstName[1] \notin WhiteSpace
     /\ LastName[Len(LastName)] \notin WhiteSpace
     /\ ~IsJsonDocument(Joined)) =>
        result = Returned(StrVal(Joined))

\* C16 witness: "4" and "4" were joined to the string "4 4", which was
\* written to the output as a string
JoinsPlainNamesWitness ==
    /\ pc = "field_written"
    /\ IsJoin
    /\ FirstName = <<"4">>
    /\ LastName = <<"4">>
    /\ result = Returned(StrVal(<<"4", " ", "4">>))
    /\ v2_response = [a \in {<<"a">>} |-> StrVal(<<"4", " ", "4">>)]

-----------------------------------------------------------------------------
(* endpoint_generator.py: the generated endpoint handler and _handle_request *)

\* re.findall(r'\{([^}]+)\}', path)
RECURSIVE extract_path_params(_)
extract_path_params(path) ==
    IF path = <<>> THEN <<>>
    ELSE IF /\ Head(path) = "{"
            /\ UpToBrace(Tail(path)) # <<>>
            /\ Len(UpToBrace(Tail(path))) < Len(Tail(path))
    THEN <<UpToBrace(Tail(path))>>
         \o extract_path_params(Drop(path, Len(UpToBrace(Tail(path))) + 2))
    ELSE extract_path_params(Tail(path))

\* dict.update
Update(d, other) ==
    [k \in DOMAIN d \cup DOMAIN other |-> IF k \in DOMAIN other THEN other[k] ELSE d[k]]

NoBody == [kind |-> "absent"]

MalformedBody == [kind |-> "malformed"]

\* `body = await request.json()` and `if isinstance(body, dict)`, inside
\* try/except Exception: the parameters the body contributes
BodyParams(body) == IF body.kind = "dict" THEN body.items ELSE <<>>

\* the v2_params the handler of _create_endpoint_function gives to
\* _handle_request: for a route with placeholders the path parameters alone
\* (kwargs.get for each), else the query parameters updated with the keys of a
\* JSON object sent with POST, PUT or PATCH
endpoint_handler(endpoint, req) ==
    LET path_params == extract_path_params(endpoint.v2_path)
    IN  IF Len(path_params) >= 1
        THEN [param \in Range(path_params) |-> DictGet(req.path_params, param)]
        ELSE Update(req.query_params,
                    IF endpoint.v2_method \in {"POST", "PUT", "PATCH"}
                    THEN BodyParams(req.body) ELSE <<>>)

HTTPException(status_code, detail) ==
    [kind |-> "HTTPException", status_code |-> status_code, detail |-> detail]

\* Mutant of HTTPExceptionFor: an orchestration error is answered like an
\* unexpected one
HTTPExceptionFor_AllInternal(e) ==
    IF e.kind = "ResponseBuilderError"
    THEN HTTPException(500, [error |-> e, type |-> "response_building_error"])
    ELSE HTTPException(500, [error |-> "Internal server error", type |-> "unexpected_error"])

\* the except clauses of _handle_request
HTTPExceptionFor(e) ==
    IF e.kind = "V1OrchestratorError"
    THEN HTTPException(e.status_code,
                       [error |-> e, type |-> "orchestration_error", details |-> e.details])
    ELSE IF e.kind = "ResponseBuilderError"
    THEN HTTPException(500, [error |-> e, type |-> "response_building_error"])
    ELSE HTTPException(500, [error |-> "Internal server error", type |-> "unexpected_error"])

EndpointConfig(v2_path, v2_method) == [v2_path |-> v2_path, v2_method |-> v2_method]

\* /r, /r/{x} and /r/{x}/{y}
Endpoints ==
    { EndpointConfig(<<"/", "r">>, "GET"),
      EndpointConfig(<<"/", "r">>, "POST"),
      EndpointConfig(<<"/", "r", "/", "{", "x", "}">>, "GET"),
      EndpointConfig(<<"/", "r", "/", "{", "x", "}">>, "PUT"),
      EndpointConfig(<<"/", "r", "/", "{", "x", "}", "/", "{", "y", "}">>, "GET") }

\* the path parameters the router matched for the route
MatchedPathParams(endpoint) ==
    [param \in Range(extract_path_params(endpoint.v2_path)) |->
        IF param = <<"x">> THEN StrVal(<<"7">>) ELSE StrVal(<<"5">>)]

QueryParams ==
    { <<>>,
      [k \in {<<"q">>} |-> StrVal(<<"1">>)],
      [k \in {<<"x">>} |-> StrVal(<<"9">>)] }

\* no body, a body that is no JSON, JSON objects, and a JSON array
RequestBodies ==
    { NoBody, MalformedBody,
      Dict([k \in {<<"b">>} |-> IntVal(2)]),
      Dict([k \in {<<"q">>} |-> StrVal(<<"B">>)]),
      ListVal(<<>>) }

Requests ==
    { [endpoint |-> endpoint, path_params |-> MatchedPathParams(endpoint),
       query_params |-> query, body |-> body] :
          endpoint \in Endpoints, query \in QueryParams, body \in RequestBodies }

\* a call that needs the parameter x, a call without parameters whose key n a
\* transform reads, and both
HandlerDocs ==
    { MappingConfig(<<V1ApiCall(<<"p">>, <<"/", "p", "/", "{", "i", "}">>, "GET",
                                PathParam(<<"i">>))>>, StubMappings),
      MappingConfig(<<V1ApiCall(<<"c">>, <<"/", "c">>, "GET", <<>>)>>,
                    <<FieldMapping(PathA, <<"c">>, <<>>, JinjaExpr, NoValue)>>),
      MappingConfig(<<V1ApiCall(<<"p">>, <<"/", "p", "/", "{", "i", "}">>, "GET",
                                PathParam(<<"i">>)),
                      V1ApiCall(<<"c">>, <<"/", "c">>, "GET", <<>>)>>,
                    <<FieldMapping(PathA, <<"c">>, <<"n">>, <<>>, NoValue)>>),
      \* a mapping whose source p is no declared call: the loader rejects it
      MappingConfig(<<V1ApiCall(<<"c">>, <<"/", "c">>, "GET", <<>>)>>,
                    <<FieldMapping(PathA, <<"p">>, <<"n">>, <<>>, NoValue)>>) }

HandlerInit ==
    /\ config \in {d \in HandlerDocs : load_config(d).kind = "return"}
    /\ request \in Requests
    /\ answer = NoResult
    /\ pc = "handler"
    /\ v2_params = <<>>
    /\ v1_responses = <<>>
    /\ result = NoResult
    /\ NoHistory
    /\ LoaderIdle
    /\ BuilderIdle
    /\ TransformIdle
    /\ ServerIdle

\* endpoint_handler up to its call of _handle_request, which goes on to
\* `await self.orchestrator.orchestrate(config, v2_params)`
EndpointHandler ==
    /\ pc = "handler"
    /\ v2_params' = endpoint_handler(request.endpoint, request)
    /\ pc' = "loop"
    /\ UNCHANGED <<config, v1_responses, result, histVars, loadVars, buildVars, reqVars,
                   xformVars, serverVars>>

\* _handle_request after orchestrate: build_response on what orchestrate
\* returned and `return v2_response`, or the except clause for what was raised
HandleRequestFinish ==
    /\ pc \in {"returned", "raised", "escaped"}
    /\ request # NoValue
    /\ IF pc = "returned"
       THEN \E built \in {build_response(Load(config, v1_responses))} :
                /\ answer' = IF built.result.kind = "return" THEN Outcome(built)
                             ELSE HTTPExceptionFor(built.result)
                /\ v2_response' = View(built.objs, ObjRef(built.v2_response)).items
                /\ written' = built.written
                /\ failed' = built.failed
                /\ memory' = [Load(config, v1_responses) EXCEPT !.objs = built.objs]
                /\ runs' = <<Outcome(built)>>
       ELSE /\ answer' = HTTPExceptionFor(result)
            /\ UNCHANGED <<v2_response, written, failed, memory, runs>>
    /\ pc' = "answered"
    /\ UNCHANGED <<config, v2_params, v1_responses, result, histVars, loadVars, nested_in,
                   read_back, request, xformVars, serverVars>>

HandlerNext == EndpointHandler \/ OrchNext \/ HandleRequestFinish

HandlerSpec == HandlerInit /\ [][HandlerNext]_vars

\* the keys of the JSON body of a request whose method carries one
BodyKeys ==
    IF request.endpoint.v2_method \in {"POST", "PUT", "PATCH"}
    THEN DOMAIN BodyParams(request.body) ELSE {}

\* C19: for every registered route, whatever its placeholders and its method,
\* the handler passes to the orchestrator one bag that holds the path
\* parameters, the query parameters and the keys of the JSON body of the
\* request (a malformed or absent body contributing none).
UnifiedBag ==
    (request # NoValue /\ pc # "handler") =>
        /\ \A param \in DOMAIN request.path_params :
              param \in DOMAIN v2_params /\ v2_params[param] = request.path_params[param]
        /\ DOMAIN request.query_params \subseteq DOMAIN v2_params
        /\ BodyKeys \subseteq DOMAIN v2_params

\* C20: at the request boundary every failure is classified into exactly one
\* status.  A V1OrchestratorError out of orchestrate is answered with its own
\* status code, a ResponseBuilderError out of build_response with 500, and any
\* other exception with 500 and the fixed internal-error detail, which holds
\* nothing of the exception; the request is answered with the payload only
\* when orchestrate returned and build_response returned it.
FailureClassified ==
    (request # NoValue /\ pc = "answered") =>
        /\ answer.kind \in {"return", "HTTPException"}
        /\ result.kind = "V1OrchestratorError" =>
              /\ answer.kind = "HTTPException"
              /\ answer.status_code = result.status_code
              /\ answer.detail.type = "orchestration_error"
        /\ result.kind = "exception" =>
              answer = HTTPException(500, [error |-> "Internal server error",
                                           type |-> "unexpected_error"])
        /\ (result.kind = "return" /\ runs[1].kind = "ResponseBuilderError") =>
              /\ answer.kind = "HTTPException"
              /\ answer.status_code = 500
              /\ answer.detail.type = "response_building_error"
        /\ answer.kind = "return" <=> (result.kind = "return" /\ runs[1].kind = "return")
        /\ answer.kind = "return" => answer.data = runs[1].data
        /\ result.kind \in {"V1OrchestratorError", "exception", "return"}

\* C20 witness: the second call timed out after the first had answered, and
\* the request was answered 504
FailureClassifiedWitness ==
    /\ request # NoValue
    /\ pc = "answered"
    /\ Len(config.v1_calls) = 2
    /\ DOMAIN v1_responses = {<<"p">>}
    /\ result.kind = "V1OrchestratorError"
    /\ result.status_code = 504
    /\ answer.kind = "HTTPException"
    /\ answer.status_code = 504

-----------------------------------------------------------------------------
(* What build_response leaves behind in its arguments *)

\* the response set as the caller finds it in memory
ResponsesIn(mem) ==
    [name \in DOMAIN mem.v1_responses |-> View(mem.objs, mem.v1_responses[name])]

\* the stub values of the document as the caller finds them in memory
StubValuesIn(mem) ==
    [i \in DOMAIN mem.field_mappings |-> View(mem.objs, mem.field_mappings[i].stub_value)]

\* C29: build_response has no effect outside its returned output.  After the
\* call, whether it returned or failed, every stub_value of the mapping
\* document and every nested value of every call's response equal what they
\* were before the call.
NoOutsideEffect ==
    Len(runs) = 1 =>
        /\ ResponsesIn(memory) = v1_responses
        /\ StubValuesIn(memory) =
              [i \in DOMAIN config.field_mappings |-> config.field_mappings[i].stub_value]

-----------------------------------------------------------------------------
(* The response set orchestrate hands to the assembly *)

DeclaredCallNames == {config.v1_calls[i].name : i \in DOMAIN config.v1_calls}

\* apply_mapping would raise "Source '...' not found in V1 responses"
SourceNotFound(i) ==
    /\ config.field_mappings[i].source # STUB
    /\ config.field_mappings[i].source \notin DOMAIN v1_responses

\* C30: for every document the loader accepts, when orchestrate returns
\* normally the keys of the response set are exactly the declared call names,
\* so in the assembly that follows every non-stub field mapping finds its
\* source: no mapping fails because its source is missing.
SourcesFound ==
    /\ pc = "returned" => DOMAIN v1_responses = DeclaredCallNames
    /\ (request # NoValue /\ (pc = "returned" \/ (pc = "answered" /\ runs # <<>>))) =>
          /\ \A i \in DOMAIN config.field_mappings : ~SourceNotFound(i)
          /\ \A i \in failed : config.field_mappings[i].source \in DOMAIN v1_responses

\* C30 witness: a request of the document with two calls was answered from a
\* response set with both names, its mapping from c written
SourcesFoundWitness ==
    /\ pc = "answered"
    /\ runs # <<>>
    /\ DOMAIN v1_responses = {<<"p">>, <<"c">>}
    /\ config.field_mappings[1].source = <<"c">>
    /\ written = {1}

-----------------------------------------------------------------------------
(* Loading documents whose field mappings carry a stub_type *)

\* the four recognized values, and three that are not
StubTypePool == valid_types \cup {"default", "", "NULL"}

WithStubType(field_mapping, stub_type) ==
    [k \in DOMAIN field_mapping \cup {"stub_type"} |->
        IF k = "stub_type" THEN stub_type ELSE field_mapping[k]]

\* a stub and a direct mapping, without a stub_type and with each of the pool
StubTypeMappings ==
    LET plain == { FieldMapping(<<"f">>, STUB, <<>>, <<>>, NoValue),
                   FieldMapping(<<"f">>, <<"p">>, <<"n">>, <<>>, NoValue) }
    IN  plain \cup {WithStubType(m, t) : m \in plain, t \in StubTypePool}

StubTypeDocs ==
    {MappingConfig(<<V1ApiCall(<<"p">>, <<"/", "c">>, "GET", <<>>)>>, maps) :
        maps \in SeqsUpTo(StubTypeMappings, MaxMappings) \ {<<>>}}

StubTypeInit ==
    /\ raw_config \in StubTypeDocs
    /\ configs \in {<<>>, [id \in {"e1"} |-> OldDoc]}
    /\ pc = "load"
    /\ config = NoValue
    /\ v2_params = <<>>
    /\ v1_responses = <<>>
    /\ result = NoResult
    /\ NoHistory
    /\ BuilderIdle
    /\ RequestIdle
    /\ TransformIdle
    /\ ServerIdle

StubTypeSpec == StubTypeInit /\ [][LoadNext]_vars

\* the stub_type the claim expects the loaded mapping to carry
NormalizedStubType(field_mapping) ==
    IF "stub_type" \notin DOMAIN field_mapping THEN field_mapping
    ELSE [field_mapping EXCEPT !.stub_type =
             IF @ \in valid_types THEN @ ELSE "configurable_default"]

\* C26: a stub_type outside the four recognized values is never a reason to
\* reject a document: the document loads, and the field mapping carries
\* configurable_default in place of the unrecognized value.
StubTypeNormalized ==
    pc \in {"loaded", "load_failed"} =>
        /\ result.kind = "return"
        /\ result.data.field_mappings =
              [i \in DOMAIN raw_config.field_mappings |->
                  NormalizedStubType(raw_config.field_mappings[i])]

-----------------------------------------------------------------------------
(* The server: main.py (lifespan, reload_configs), file_watcher.py *)

MaxChanges == 3

MaxClock == 5

\* ConfigFileHandler.debounce_delay, in seconds
debounce_delay == 1

\* what the server actions leave alone: the variables of a single operation
handlingVars == <<config, v2_params, v1_responses, result, histVars, loadVars, buildVars,
                  reqVars, xformVars>>

EndpointIds == {"e1", "e2"}

\* two documents the loader accepts, and one it rejects (its source p is no
\* declared call)
DocA == MappingConfig(<<V1ApiCall(<<"p">>, <<"/", "p">>, "GET", <<>>)>>,
                      <<FieldMapping(PathA, <<"p">>, <<"n">>, <<>>, NoValue)>>)

DocB == MappingConfig(<<V1ApiCall(<<"c">>, <<"/", "c">>, "GET", <<>>)>>,
                      <<FieldMapping(PathA, <<"c">>, <<"n">>, <<>>, NoValue)>>)

DocInvalid == MappingConfig(<<V1ApiCall(<<"c">>, <<"/", "c">>, "GET", <<>>)>>,
                            <<FieldMapping(PathA, <<"p">>, <<"n">>, <<>>, NoValue)>>)

StoreDocs == {DocA, DocB, DocInvalid}

\* the directories: each <endpoint_id>.yaml is absent or holds a document
Stores == UNION {[ids -> StoreDocs] : ids \in SUBSET EndpointIds}

\* the orders in which glob("*.yaml") may yield the files
Orders(ids) ==
    {order \in SeqsUpTo(ids, Cardinality(ids)) :
        Len(order) = Cardinality(ids) /\ Range(order) = ids}

\* ConfigLoader.load_all_configs on the loader's own dict: every file in turn
\* is loaded and stored under its stem; the first file that does not validate
\* raises, and the files before it stay stored
RECURSIVE load_all_configs(_, _, _)
load_all_configs(loaded, files, order) ==
    IF order = <<>> THEN [kind |-> "return", configs |-> loaded]
    ELSE IF load_config(files[Head(order)]).kind = "return"
    THEN load_all_configs(DictSet(loaded, Head(order), load_config(files[Head(order)]).data),
                          files, Tail(order))
    ELSE [kind |-> "ValueError", configs |-> loaded]

\* reload_configs, `endpoint_configs.clear()` and
\* `endpoint_configs.update(new_configs)`, where new_configs is the dict
\* object load_all_configs returned: the loader's own
RegistryReplaced(ds, registry) ==
    LET cleared == [ds EXCEPT ![registry] = <<>>]
    IN  [cleared EXCEPT ![registry] = Update(@, cleared.loader)]

\* reload_configs(): load, then register the endpoints of new_configs on a new
\* router, replace the content of the registry and swap the routes of the
\* app; an exception ends it where it is raised and is logged
reload_configs(ds, registry, rts, files, order) ==
    LET loaded == load_all_configs(ds.loader, files, order)
        after  == [ds EXCEPT !.loader = loaded.configs]
    IN  IF loaded.kind # "return"
        THEN [ok |-> FALSE, dicts |-> after, routes |-> rts]
        ELSE [ok |-> TRUE, dicts |-> RegistryReplaced(after, registry),
              routes |-> loaded.configs]

\* ConfigFileHandler._debounced_reload: a signal more than debounce_delay
\* after the last accepted one is accepted, and schedules _async_reload on
\* the running loop when the calling thread has one; any other signal is
\* dropped
debounced_reload(w, has_loop) ==
    IF w.now - w.last_reload > debounce_delay
    THEN [w EXCEPT !.last_reload = w.now,
                   !.tasks = IF has_loop THEN @ + 1 ELSE @]
    ELSE w

\* the documents of a directory that validate, by endpoint id
StoreGeneration(files) ==
    [id \in {i \in DOMAIN files : load_config(files[i]).kind = "return"} |->
        load_config(files[id]).data]

\* the registry: the dict the global endpoint_configs is bound to
Registry == dicts[endpoint_configs]

ReloadInit ==
    /\ store \in Stores
    /\ pc = "startup"
    /\ dicts = <<>>
    /\ endpoint_configs = "own"
    /\ routes = <<>>
    /\ watcher = NoValue
    /\ client = NoValue
    /\ requests = <<>>
    /\ observed = NoValue
    /\ config = NoValue
    /\ v2_params = <<>>
    /\ v1_responses = <<>>
    /\ result = NoResult
    /\ NoHistory
    /\ LoaderIdle
    /\ BuilderIdle
    /\ RequestIdle
    /\ TransformIdle

\* lifespan up to its yield: the startup load (endpoint_configs is bound to
\* the dict load_all_configs returned, or to a new {} when it raised), the
\* orchestrator and its client, the routes, init_config_routes with its own
\* loader, and the file watcher
Startup ==
    /\ pc = "startup"
    /\ \E order \in Orders(DOMAIN store) :
           \E loaded \in {load_all_configs(<<>>, store, order)} :
               /\ dicts' = [loader |-> loaded.configs, own |-> <<>>, api |-> <<>>]
               /\ endpoint_configs' = IF loaded.kind = "return" THEN "loader" ELSE "own"
               /\ routes' = IF loaded.kind = "return" THEN loaded.configs ELSE <<>>
               /\ observed' = [old |-> <<>>, new |-> StoreGeneration(store),
                               last |-> IF loaded.kind = "return" THEN "startup_ok"
                                        ELSE "startup_failed",
                               changes |-> 0, unreloaded |-> FALSE]
    /\ client' = [state |-> "open", created |-> 1, closed |-> 0]
    /\ watcher' = [last_reload |-> 0, now |-> debounce_delay + 1, tasks |-> 0,
                   running |-> TRUE]
    /\ pc' = "serving"
    /\ UNCHANGED <<store, requests, handlingVars>>

\* a file of the directory is created, modified or deleted, and watchdog
\* calls on_created / on_modified / on_deleted
FileChanged ==
    /\ pc = "serving"
    /\ watcher.running
    /\ observed.changes < MaxChanges
    /\ \E id \in EndpointIds :
           \/ \E doc \in StoreDocs :
                  /\ ~(id \in DOMAIN store /\ store[id] = doc)
                  /\ store' = DictSet(store, id, doc)
           \/ /\ id \in DOMAIN store
              /\ store' = [i \in DOMAIN store \ {id} |-> store[i]]
    /\ \E has_loop \in BOOLEAN : watcher' = debounced_reload(watcher, has_loop)
    /\ observed' = [observed EXCEPT !.changes = @ + 1, !.unreloaded = TRUE]
    /\ UNCHANGED <<pc, dicts, endpoint_configs, routes, client, requests, handlingVars>>

\* time passes
Tick ==
    /\ pc = "serving"
    /\ watcher.now < MaxClock
    /\ watcher' = [watcher EXCEPT !.now = @ + 1]
    /\ UNCHANGED <<pc, store, dicts, endpoint_configs, routes, client, requests, observed,
                   handlingVars>>

\* the generation in effect once a load is over
GenerationInEffect == IF observed.last \in {"startup_ok", "reload_ok"} THEN observed.new
                      ELSE observed.old

\* ConfigFileHandler._async_reload: the scheduled task runs reload_configs,
\* which has no await and so runs to its end without suspending
AsyncReload ==
    /\ pc = "serving"
    /\ watcher.tasks > 0
    /\ watcher' = [watcher EXCEPT !.tasks = @ - 1]
    /\ \E order \in Orders(DOMAIN store) :
           \E reloaded \in {reload_configs(dicts, endpoint_configs, routes, store, order)} :
               /\ dicts' = reloaded.dicts
               /\ routes' = reloaded.routes
               /\ observed' = [observed EXCEPT
                                  !.old = GenerationInEffect,
                                  !.new = StoreGeneration(store),
                                  !.last = IF reloaded.ok THEN "reload_ok" ELSE "reload_failed",
                                  !.unreloaded = FALSE]
    /\ UNCHANGED <<pc, store, endpoint_configs, client, requests, handlingVars>>

ReloadNext == Startup \/ FileChanged \/ Tick \/ AsyncReload

ReloadSpec == ReloadInit /\ [][ReloadNext]_vars

\* C21: registry replacement is atomic for readers.  At every moment, also
\* after a reload that failed part-way, the registry and the registered routes
\* are one single generation of documents: both the set in effect before the
\* latest load, or both the set the store held at that load.
OneGeneration ==
    pc = "serving" =>
        \E generation \in {observed.old, observed.new} :
            /\ Registry = generation
            /\ routes = generation

\* C22: after a startup load and after every reload that succeeded, the
\* registry holds exactly the documents of the store, by endpoint id.
RegistryIsStore ==
    (pc = "serving" /\ observed.last \in {"startup_ok", "reload_ok"}) =>
        Registry = observed.new


\* the event loop runs the tasks scheduled on it, and the server starts
ReloadFairSpec == ReloadSpec /\ WF_vars(Startup) /\ WF_vars(AsyncReload)

\* C28: every change the store signals (a .yaml file of the config directory
\* created, modified or deleted) is eventually followed by a reload that
\* starts after that change; the debounce merges signals but never loses the
\* last change.
ChangeReloaded ==
    (pc = "serving" /\ observed.unreloaded) ~> (pc = "serving" /\ ~observed.unreloaded)

-----------------------------------------------------------------------------
(* The management API: api/config_routes.py *)

MaxApiCalls == 3

\* what a route of the management API returns
Success(data) == [success |-> TRUE, data |-> data]

Failure(error) == [success |-> FALSE, error |-> error]

\* Mutant of update_config: the entry and the file are written before the
\* document is validated
update_config_WriteFirst(ds, registry, files, config_id, updated_config) ==
    IF config_id \notin DOMAIN ds[registry]
    THEN [answer |-> Failure("Configuration not found"), dicts |-> ds, files |-> files]
    ELSE [answer |-> IF load_config(updated_config).kind = "return"
                     THEN Success("Configuration updated successfully")
                     ELSE Failure("Invalid configuration"),
          dicts  |-> [ds EXCEPT ![registry] = DictSet(@, config_id, updated_config)],
          files  |-> IF config_id \in DOMAIN files
                     THEN DictSet(files, config_id, updated_config) ELSE files]

\* update_config(config_id, updated_config): unknown ids are refused; the
\* entry is assigned the validated MappingConfig, then the file, when it
\* exists, is overwritten with the document as it was sent; an exception
\* (the validation error) gives the failure answer
update_config(ds, registry, files, config_id, updated_config) ==
    IF config_id \notin DOMAIN ds[registry]
    THEN [answer |-> Failure("Configuration not found"), dicts |-> ds, files |-> files]
    ELSE IF load_config(updated_config).kind # "return"
    THEN [answer |-> Failure("Invalid configuration"), dicts |-> ds, files |-> files]
    ELSE [answer |-> Success("Configuration updated successfully"),
          dicts  |-> [ds EXCEPT ![registry] =
                         DictSet(@, config_id, load_config(updated_config).data)],
          files  |-> IF config_id \in DOMAIN files
                     THEN DictSet(files, config_id, updated_config) ELSE files]

\* get_config(config_id): the route's own loader loads the directory again
\* and answers from what it holds; when that raises or does not have the id,
\* the answer comes from the registry
get_config(ds, registry, files, config_id, order) ==
    LET loaded == load_all_configs(ds.api, files, order)
        after  == [ds EXCEPT !.api = loaded.configs]
    IN  [dicts  |-> after,
         answer |-> IF loaded.kind = "return" /\ config_id \in DOMAIN loaded.configs
                    THEN Success(loaded.configs[config_id])
                    ELSE IF config_id \in DOMAIN after[registry]
                    THEN Success(after[registry][config_id])
                    ELSE Failure("Configuration not found")]

\* the calls of the management API made so far
ApiCallsMade == IF request = NoValue THEN 0 ELSE request.n

\* PUT /configs/{config_id}
UpdateConfig ==
    /\ pc = "serving"
    /\ ApiCallsMade < MaxApiCalls
    /\ \E config_id \in EndpointIds, updated_config \in StoreDocs :
           /\ request' = [op |-> "update", config_id |-> config_id,
                          updated_config |-> updated_config,
                          n |-> ApiCallsMade + 1]
           /\ \E updated \in {update_config(dicts, endpoint_configs, store, config_id,
                                            updated_config)} :
                  /\ answer' = updated.answer
                  /\ dicts' = updated.dicts
                  /\ store' = updated.files
    /\ UNCHANGED <<pc, endpoint_configs, routes, watcher, client, requests, observed,
                   config, v2_params, v1_responses, result, histVars, loadVars, buildVars,
                   xformVars>>

\* GET /configs/{config_id}
GetConfig ==
    /\ pc = "serving"
    /\ ApiCallsMade < MaxApiCalls
    /\ \E config_id \in EndpointIds, order \in Orders(DOMAIN store) :
           /\ request' = [op |-> "get", config_id |-> config_id,
                          updated_config |-> NoValue,
                          n |-> ApiCallsMade + 1]
           /\ \E got \in {get_config(dicts, endpoint_configs, store, config_id, order)} :
                  /\ answer' = got.answer
                  /\ dicts' = got.dicts
    /\ UNCHANGED <<pc, store, endpoint_configs, routes, watcher, client, requests, observed,
                   config, v2_params, v1_responses, result, histVars, loadVars, buildVars,
                   xformVars>>

ManageNext == Startup \/ UpdateConfig \/ GetConfig

ManageSpec == ReloadInit /\ [][ManageNext]_vars

\* the update just made was one with a document that does not validate
InvalidUpdateMade ==
    /\ request' # request
    /\ request'.op = "update"
    /\ load_config(request'.updated_config).kind # "return"

\* C27: an update through the management API with an invalid document reports
\* failure and changes nothing: the registry entry of that id and its YAML
\* file are after the call what they were before it, and a get that follows
\* returns what it returned before.
InvalidUpdateChangesNothing ==
    [][InvalidUpdateMade =>
          /\ ~answer'.success
          /\ dicts'[endpoint_configs'] = dicts[endpoint_configs]
          /\ store' = store
          /\ \A order \in Orders(DOMAIN store) :
                 get_config(dicts', endpoint_configs', store', request'.config_id, order).answer
                 = get_config(dicts, endpoint_configs, store, request'.config_id, order).answer
      ]_vars

\* C27 witness: an update of a registered document whose file exists was made
\* with a document that does not validate, and was refused for that
InvalidUpdateWitness ==
    /\ pc = "serving"
    /\ request # NoValue
    /\ request.op = "update"
    /\ request.config_id \in DOMAIN Registry
    /\ request.config_id \in DOMAIN store
    /\ load_config(request.updated_config).kind # "return"
    /\ answer = Failure("Invalid configuration")

-----------------------------------------------------------------------------
(* Requests while the server reloads and shuts down *)

MaxRequests == 1

MaxServeChanges == 2

\* a document with two calls
DocTwoCalls ==
    MappingConfig(<<V1ApiCall(<<"p">>, <<"/", "p">>, "GET", <<>>),
                    V1ApiCall(<<"c">>, <<"/", "c">>, "GET", <<>>)>>,
                  <<FieldMapping(PathA, <<"c">>, <<"n">>, <<>>, NoValue)>>)

ServeStores == { [id \in {"e1"} |-> DocA], [id \in {"e1"} |-> DocTwoCalls] }

\* the upstream answers 200 with {n: 'v'}, or the call times out
ServeOutcomes ==
    { HttpResponse(200, [text |-> "b1", decodes |-> TRUE,
                         data |-> Dict([k \in {<<"n">>} |-> StrVal(<<"v">>)])]),
      Timeout }

\* what is left alone by the steps of a request
serveFrame == <<config, v2_params, v1_responses, result, idx, in_flight, last_outcome,
                last_result, loadVars, buildVars, reqVars, xformVars>>

ServeInit ==
    /\ store \in ServeStores
    /\ pc = "startup"
    /\ dicts = <<>>
    /\ endpoint_configs = "own"
    /\ routes = <<>>
    /\ watcher = NoValue
    /\ client = NoValue
    /\ requests = <<>>
    /\ observed = NoValue
    /\ config = NoValue
    /\ v2_params = <<>>
    /\ v1_responses = <<>>
    /\ result = NoResult
    /\ NoHistory
    /\ LoaderIdle
    /\ BuilderIdle
    /\ RequestIdle
    /\ TransformIdle

\* Mutant of ClosureConfig: the handler looks its document up in the current
\* routes each time it needs it
ClosureConfig_LateBound(req, rts) ==
    IF req.route \in DOMAIN rts THEN rts[req.route] ELSE req.config

\* the `config` of endpoint_handler and _handle_request: the variable of
\* _create_endpoint_function the handler closed over when its route was
\* registered, passed on as an argument
ClosureConfig(req, rts) == req.config

\* the route of the request still serves the document the request captured
Intact(req, rts) == req.route \in DOMAIN rts /\ rts[req.route] = req.captured

\* a request reaches the handler of a registered route, which calls
\* _handle_request(config, v2_params) and that orchestrate(config, v2_params)
RequestArrives ==
    /\ pc = "serving"
    /\ Len(requests) < MaxRequests
    /\ \E id \in DOMAIN routes :
           requests' = Append(requests,
                              [route |-> id, config |-> routes[id], captured |-> routes[id],
                               pc |-> "loop", idx |-> 1, v1_responses |-> <<>>,
                               calls |-> <<>>, intact |-> TRUE, overtaken |-> FALSE,
                               answer |-> NoResult])
    /\ UNCHANGED <<pc, store, dicts, endpoint_configs, routes, watcher, client, observed,
                   dispatched, serveFrame>>

\* execute_v1_call up to `await self.client.request(...)`: the call goes
\* through the client of the orchestrator; a closed client raises
\* RuntimeError, which _handle_request answers with status 500
RequestDispatch(r) ==
    /\ requests[r].pc = "loop"
    /\ requests[r].idx <= Len(ClosureConfig(requests[r], routes).v1_calls)
    /\ \E call \in {ClosureConfig(requests[r], routes).v1_calls[requests[r].idx]} :
           /\ dispatched' = Append(dispatched, [request |-> r, call |-> call.name,
                                                client |-> client.state])
           /\ requests' =
                  IF client.state = "open"
                  THEN [requests EXCEPT ![r].pc = "awaiting",
                                        ![r].calls = Append(@, call.name),
                                        ![r].intact = Intact(requests[r], routes)]
                  ELSE [requests EXCEPT ![r].pc = "answered",
                                        ![r].answer =
                                            HTTPExceptionFor(OtherException("RuntimeError"))]
    /\ UNCHANGED <<pc, store, dicts, endpoint_configs, routes, watcher, client, observed,
                   serveFrame>>

\* the request after the step of orchestrate's loop that `after` stands for;
\* overtaken records that the document of its route was replaced or removed
\* while it awaited the response
Resumed(req, res, after, rts) ==
    IF after.pc = "loop"
    THEN [req EXCEPT !.pc = "loop", !.idx = after.idx, !.v1_responses = after.v1_responses,
                     !.overtaken = @ \/ (req.intact /\ ~Intact(req, rts))]
    ELSE [req EXCEPT !.pc = "answered", !.answer = HTTPExceptionFor(res),
                     !.overtaken = @ \/ (req.intact /\ ~Intact(req, rts))]

\* the awaited response arrives: the rest of execute_v1_call and of the loop
\* body, and the except clauses of _handle_request when the call failed
RequestResumes(r, outcome) ==
    /\ requests[r].pc = "awaiting"
    /\ \E cfg \in {ClosureConfig(requests[r], routes)}, res \in {ExecuteV1CallResult(outcome)} :
           requests' = [requests EXCEPT ![r] =
                           Resumed(@, res,
                                   OrchestrateAfterCall(cfg, requests[r].idx,
                                                        requests[r].v1_responses, res),
                                   routes)]
    /\ UNCHANGED <<pc, store, dicts, endpoint_configs, routes, watcher, client, observed,
                   dispatched, serveFrame>>

\* what _handle_request answers with once build_response is over
AnswerOfBuilt(built) ==
    IF built.result.kind = "return" THEN Outcome(built) ELSE HTTPExceptionFor(built.result)

\* _handle_request after orchestrate returned: build_response(config,
\* v1_responses), on a document whose stub values are no dicts
AnswerFrom(cfg, responses) == AnswerOfBuilt(build_response(Load(cfg, responses)))

\* orchestrate returns and the answer is assembled
RequestFinish(r) ==
    /\ requests[r].pc = "loop"
    /\ requests[r].idx > Len(ClosureConfig(requests[r], routes).v1_calls)
    /\ requests' = [requests EXCEPT
                       ![r].pc = "answered",
                       ![r].answer = AnswerFrom(ClosureConfig(requests[r], routes),
                                                requests[r].v1_responses)]
    /\ UNCHANGED <<pc, store, dicts, endpoint_configs, routes, watcher, client, observed,
                   dispatched, serveFrame>>

\* Mutant of ServerMayShutDown: the lifespan is shut down whatever the
\* requests are doing
ServerMayShutDown_Anytime(reqs) == TRUE

\* the code after lifespan's yield runs when the ASGI server sends
\* lifespan.shutdown, which it does once it stopped serving: no request is
\* being handled any more
ServerMayShutDown(reqs) == \A r \in DOMAIN reqs : reqs[r].pc = "answered"

\* lifespan after its yield: file_watcher.stop()
StopWatcher ==
    /\ pc = "serving"
    /\ ServerMayShutDown(requests)
    /\ watcher' = [watcher EXCEPT !.running = FALSE]
    /\ pc' = "stopping"
    /\ UNCHANGED <<store, dicts, endpoint_configs, routes, client, requests, observed,
                   dispatched, serveFrame>>

\* lifespan after its yield: await orchestrator.close()
CloseClient ==
    /\ pc = "stopping"
    /\ client' = [client EXCEPT !.state = "closed", !.closed = @ + 1]
    /\ pc' = "stopped"
    /\ UNCHANGED <<store, dicts, endpoint_configs, routes, watcher, requests, observed,
                   dispatched, serveFrame>>

\* a request goes on whenever the loop schedules it, also while the lifespan
\* shuts down
RequestNext ==
    /\ pc \in {"serving", "stopping", "stopped"}
    /\ \E r \in DOMAIN requests :
           \/ RequestDispatch(r)
           \/ \E outcome \in ServeOutcomes : RequestResumes(r, outcome)
           \/ RequestFinish(r)

\* the changes of the directory while requests are served
ServeFileChanged ==
    /\ pc = "serving"
    /\ observed.changes < MaxServeChanges
    /\ FileChanged

ServeNext ==
    \/ Startup
    \/ ServeFileChanged
    \/ AsyncReload
    \/ RequestArrives
    \/ RequestNext
    \/ StopWatcher
    \/ CloseClient

ServeSpec == ServeInit /\ [][ServeNext]_vars


\* C23: a request whose handling started before a reload completes its
\* orchestration and its assembly with the document version it captured at
\* the start, also when the reload replaces or removes that document while
\* the request is suspended on an upstream call: the calls it dispatches are
\* the calls of that version, in order, and its answer is assembled by that
\* version from the responses to them.
CapturedVersionKept ==
    \A r \in DOMAIN requests :
        /\ Len(requests[r].calls) <= Len(requests[r].captured.v1_calls)
        /\ \A k \in DOMAIN requests[r].calls :
               requests[r].calls[k] = requests[r].captured.v1_calls[k].name
        /\ DOMAIN requests[r].v1_responses \subseteq Range(requests[r].calls)
        /\ (requests[r].pc = "answered" /\ requests[r].answer.kind = "return") =>
               requests[r].idx > Len(requests[r].captured.v1_calls)
        /\ (requests[r].pc = "answered"
            /\ requests[r].idx > Len(requests[r].captured.v1_calls)) =>
               requests[r].answer = AnswerFrom(requests[r].captured, requests[r].v1_responses)

\* C23 witness: a request was answered with an output although, while it
\* awaited an upstream response, a reload had replaced or removed the
\* document of its route
CapturedVersionKeptWitness ==
    \E r \in DOMAIN requests :
        /\ requests[r].pc = "answered"
        /\ requests[r].answer.kind = "return"
        /\ requests[r].overtaken
        /\ observed.last = "reload_ok"

-----------------------------------------------------------------------------
(* Two requests of one route at the same time *)

PathABK == <<"a", ".", "b", ".", "k">>

\* a from the stub {}, a.b.k, a.b and x from p's n
SharedMappings ==
    { FieldMapping(PathA, STUB, <<>>, <<>>, EmptyDict),
      FieldMapping(PathABK, <<"p">>, <<"n">>, <<>>, NoValue),
      FieldMapping(PathAB, <<"p">>, <<"n">>, <<>>, NoValue),
      FieldMapping(PathX, <<"p">>, <<"n">>, <<>>, NoValue) }

\* the documents the loader accepts
SharedDocs ==
    {d \in {MappingConfig(<<V1ApiCall(<<"p">>, <<"/", "p">>, "GET", <<>>)>>, maps) :
               maps \in SeqsUpTo(SharedMappings, MaxRerunMappings)} :
        load_config(d).kind = "return"}

\* what the upstream answers: {n: 'v'} or {n: {}}
SharedBodies ==
    { Dict([k \in {<<"n">>} |-> StrVal(<<"v">>)]),
      Dict([k \in {<<"n">>} |-> EmptyDict]) }

\* a request that _handle_request has just passed to orchestrate
Arrived ==
    [pc |-> "loop", idx |-> 1, v1_responses |-> <<>>, received |-> <<>>,
     document |-> <<>>, answer |-> NoResult]

\* the route's document is one MappingConfig object, which the handler of
\* the route hands to every request: memory holds its stub values, and the
\* responses of both requests as they arrive
ConcurrentInit ==
    /\ config \in SharedDocs
    /\ memory = Load(config, <<>>)
    /\ requests = <<Arrived, Arrived>>
    /\ pc = "handling"
    /\ v2_params = <<>>
    /\ v1_responses = <<>>
    /\ result = NoResult
    /\ runs = <<>>
    /\ v2_response = <<>>
    /\ written = {}
    /\ failed = {}
    /\ nested_in = NoValue
    /\ read_back = NoResult
    /\ store = <<>>
    /\ dicts = <<>>
    /\ endpoint_configs = "own"
    /\ routes = <<>>
    /\ watcher = NoValue
    /\ client = NoValue
    /\ observed = NoValue
    /\ NoHistory
    /\ LoaderIdle
    /\ RequestIdle
    /\ TransformIdle

\* what the steps of the two requests leave alone
concurrentFrame ==
    <<config, pc, v2_params, v1_responses, result, histVars, loadVars, v2_response, written,
      failed, nested_in, read_back, runs, reqVars, xformVars, store, dicts, endpoint_configs,
      routes, watcher, client, observed>>

\* execute_v1_call up to `await self.client.request(...)`
CallSent(r) ==
    /\ pc = "handling"
    /\ requests[r].pc = "loop"
    /\ requests[r].idx <= Len(config.v1_calls)
    /\ requests' = [requests EXCEPT ![r].pc = "awaiting"]
    /\ UNCHANGED <<memory, concurrentFrame>>

\* the request once response.json() gave it the cell of a new object and the
\* loop body stored it
Received(req, data, after) ==
    [req EXCEPT !.pc = after.pc, !.idx = after.idx, !.v1_responses = after.v1_responses,
                !.received = DictSet(@, config.v1_calls[req.idx].name, data)]

\* the response arrives: response.json() makes new objects of its data, and
\* orchestrate stores it in the v1_responses of this request
ResponseArrives(r, data) ==
    /\ pc = "handling"
    /\ requests[r].pc = "awaiting"
    /\ \E stored \in {Store(memory.objs, data)} :
           /\ memory' = [memory EXCEPT !.objs = stored.objs]
           /\ requests' = [requests EXCEPT ![r] =
                              Received(@, data,
                                       OrchestrateAfterCall(config, requests[r].idx,
                                                            requests[r].v1_responses,
                                                            Returned(stored.cell)))]
    /\ UNCHANGED concurrentFrame

\* orchestrate returned: build_response(config, v1_responses) runs to its end
\* without suspending, on the document as the requests before left it
Assemble(r) ==
    /\ pc = "handling"
    /\ requests[r].pc = "loop"
    /\ requests[r].idx > Len(config.v1_calls)
    /\ \E built \in {build_response([memory EXCEPT
                                        !.v1_responses = requests[r].v1_responses])} :
           /\ memory' = [memory EXCEPT !.objs = built.objs]
           /\ requests' = [requests EXCEPT ![r].pc = "answered",
                                           ![r].document = StubValuesIn(memory),
                                           ![r].answer = AnswerOfBuilt(built)]
    /\ UNCHANGED concurrentFrame

ConcurrentNext ==
    \E r \in DOMAIN requests :
        \/ CallSent(r)
        \/ \E data \in SharedBodies : ResponseArrives(r, data)
        \/ Assemble(r)

ConcurrentSpec == ConcurrentInit /\ [][ConcurrentNext]_vars

\* a request got the answer it gets when it runs alone on the document as
\* loaded, with the same upstream responses
AnsweredAsAlone(r) ==
    requests[r].answer = AnswerFrom(config, requests[r].received)

\* C24: requests are isolated.  For every interleaving of two concurrent
\* requests, each request's answer equals what it produces when it runs alone
\* against the same upstream responses, and the mapping document it
\* assembles from is the document as loaded: nothing the other request did to
\* it is visible.
Isolated ==
    \A r \in DOMAIN requests :
        requests[r].pc = "answered" =>
            /\ AnsweredAsAlone(r)
            /\ requests[r].document =
                  [i \in DOMAIN config.field_mappings |-> config.field_mappings[i].stub_value]

-----------------------------------------------------------------------------
(* All the operations together *)

\* Every component specification above bounds the operations it lets
\* interleave; here the operations of the server (reloads, the management
\* calls and requests) interleave without that separation, which makes the
\* state space of Spec much larger than the sum of the components'.

Init == OrchInit \/ UrlInit \/ LoadInit \/ BuildInit \/ NestedInit \/ ParamsInit
        \/ CoerceInit \/ RerunInit \/ TransformInit \/ HandlerInit \/ StubTypeInit
        \/ ReloadInit \/ ServeInit \/ ConcurrentInit

Next == OrchNext \/ UrlNext \/ LoadNext \/ BuildNext \/ NestedNext \/ ParamsNext
        \/ CoerceNext \/ TransformNext \/ HandlerNext \/ ReloadNext \/ ManageNext
        \/ ServeNext \/ ConcurrentNext

Spec == Init /\ [][Next]_vars

====
